---- MODULE Spec2Model ----
(***************************************************************************)
(* A model of pgdo's coordination core: the typed flock(2) wrapper of      *)
(* lock.rs, the startup/shutdown protocol of coordinate.rs (run_and_stop,  *)
(* run_and_stop_if_exists, run_and_destroy, Guard), the resource based     *)
(* startup/shutdown of cluster/resource.rs, and with_finally.              *)
(*                                                                         *)
(* Every process opens the lock file itself, so every process owns one     *)
(* open file description; flock(2) locks belong to that description.       *)
(* flock(2) is modelled with the outcomes success and EAGAIN.  A failed    *)
(* non-blocking conversion (shared -> exclusive) keeps the lock already    *)
(* held on BSD derived kernels and loses it on Linux; which kernel the     *)
(* build runs on is chosen in the initial state.                           *)
(***************************************************************************)
EXTENDS Naturals, FiniteSets, Sequences, TLC

VARIABLES
    os,         \* "linux" or "bsd": the kernel's flock(2) conversion semantics
    flock,      \* per process: the lock its open file description holds in the kernel
    handle,     \* per process: the Rust type of its lock value (lock.rs:38-42)
    pc,         \* per process: where it is in its function
    mode,       \* per process: which entry point it runs
    subject,    \* the Subject's status: [exists, running]
    task,       \* per process: outcome of the action / task closure
    result,     \* per process: what the entry point returned to its caller
    state,      \* per process: the State its startup returned
    logged,     \* per process: the errors it has logged and suppressed
    hist        \* per process: observations recorded for the properties

vars == <<os, flock, handle, pc, mode, subject, task, result, state, logged, hist>>

--------------------------------------------------------------------------
(* Bounds *)

\* number of processes running the coordinate.rs entry points
NProcs == 2

\* number of processes using the lock.rs operations directly
NLockProcs == 3

\* number of processes running the cluster/resource.rs startup
NResProcs == 2
NStartupProcs == 3
NArchivers == 2

\* number of distinct payload values for errors and panics
MaxVal == 2

\* the number of concurrent backups into one destination
NBackups == 2

\* the largest u32, scaled down: data.N names carry N in 0..MaxU32
MaxU32 == 3

\* the longest WAL file content, in bytes
MaxWalLen == 2

\* the highest exit code of pg_ctl status looked at
MaxExitCode == 5

\* the longest chain of strategies
MaxChain == 2

\* the number of operators applied to a constraint, one after another
MaxOps == 2

\* the longest list of constraints given to any and all
MaxList == 2

\* the longest version text parsed, in characters
MaxText == 6

\* the largest u32 a version component can hold, scaled down (above 10, so
\* that both shapes of version occur below it)
MaxComponent == 19

Procs == 1..NProcs
LockProcs == 1..NLockProcs
ResProcs == 1..NResProcs

P == DOMAIN flock

--------------------------------------------------------------------------
(* flock(2) on one lock file *)

FlockArgs == {"LockShared", "LockExclusive", "Unlock",
              "LockSharedNonblock", "LockExclusiveNonblock", "UnlockNonblock"}

\* the lock type an argument asks for
Wanted(arg) ==
    CASE arg \in {"LockShared", "LockSharedNonblock"} -> "shared"
      [] arg \in {"LockExclusive", "LockExclusiveNonblock"} -> "exclusive"
      [] OTHER -> "none"

\* does a lock of another open file description conflict with the request?
Conflict(p, arg) ==
    CASE Wanted(arg) = "shared" -> \E q \in P \ {p} : flock[q] = "exclusive"
      [] Wanted(arg) = "exclusive" -> \E q \in P \ {p} : flock[q] # "none"
      [] OTHER -> FALSE

\* flock(fd, arg) as the kernel answers it at once: errno and the new lock table.
\* A request for the type already held succeeds without a conflict check.  A
\* conversion that meets a conflict fails with EAGAIN (the blocking variants
\* then wait, see Blocked); on Linux the lock held before is gone by then.
Flock(p, arg) ==
    IF Wanted(arg) = flock[p] THEN [errno |-> "OK", flock |-> flock]
    ELSE IF ~Conflict(p, arg)
    THEN [errno |-> "OK", flock |-> [flock EXCEPT ![p] = Wanted(arg)]]
    ELSE [errno |-> "EAGAIN",
          flock |-> IF os = "linux" \/ arg \in {"LockShared", "LockExclusive"}
                    THEN [flock EXCEPT ![p] = "none"]
                    ELSE flock]

--------------------------------------------------------------------------
(* lock.rs: UnlockedFile, LockedFileShared, LockedFileExclusive.           *)
(* Each operation yields the Either side, the type of the value returned   *)
(* and the kernel's lock table after the call.                             *)

HandleTypes == {"UnlockedFile", "LockedFileShared", "LockedFileExclusive"}

TryResult(p, arg, ok) ==
    LET r == Flock(p, arg)
    IN  IF r.errno = "OK"
        THEN [either |-> "Right", handle |-> ok, flock |-> r.flock]
        ELSE [either |-> "Left", handle |-> handle[p], flock |-> r.flock]

UnlockedFile_try_lock_shared(p) == TryResult(p, "LockSharedNonblock", "LockedFileShared")

\* a slip: the shared flag passed where the exclusive one is meant
UnlockedFile_try_lock_exclusive_SharedArg(p) ==
    TryResult(p, "LockSharedNonblock", "LockedFileExclusive")

UnlockedFile_try_lock_exclusive(p) ==
    TryResult(p, "LockExclusiveNonblock", "LockedFileExclusive")

\* a slip: EAGAIN taken for success
LockedFileShared_try_lock_exclusive_IgnoresEAGAIN(p) ==
    [either |-> "Right", handle |-> "LockedFileExclusive",
     flock |-> Flock(p, "LockExclusiveNonblock").flock]

LockedFileShared_try_lock_exclusive(p) ==
    TryResult(p, "LockExclusiveNonblock", "LockedFileExclusive")

LockedFileShared_try_unlock(p) == TryResult(p, "UnlockNonblock", "UnlockedFile")

LockedFileShared_unlock(p) == TryResult(p, "Unlock", "UnlockedFile")

LockedFileExclusive_try_lock_shared(p) ==
    TryResult(p, "LockSharedNonblock", "LockedFileShared")

\* A blocking call that cannot be granted at once leaves the caller waiting
\* inside flock(2): "Blocked".
BlockingResult(p, arg, ok) ==
    LET r == Flock(p, arg)
    IN  IF r.errno = "OK"
        THEN [either |-> "Right", handle |-> ok, flock |-> r.flock]
        ELSE [either |-> "Blocked", handle |-> handle[p], flock |-> r.flock]

UnlockedFile_lock_shared(p) == BlockingResult(p, "LockShared", "LockedFileShared")

UnlockedFile_lock_exclusive(p) == BlockingResult(p, "LockExclusive", "LockedFileExclusive")

LockedFileShared_lock_exclusive(p) ==
    BlockingResult(p, "LockExclusive", "LockedFileExclusive")

LockedFileExclusive_lock_shared(p) == BlockingResult(p, "LockShared", "LockedFileShared")

LockedFileExclusive_try_unlock(p) == TryResult(p, "UnlockNonblock", "UnlockedFile")

LockedFileExclusive_unlock(p) == TryResult(p, "Unlock", "UnlockedFile")

\* Dropping a lock value closes the file, which releases whatever lock the
\* open file description holds.
DropLock(p) == [flock EXCEPT ![p] = "none"]


--------------------------------------------------------------------------
(* Processes that use the lock.rs operations directly, in any order *)

NoTask == [kind |-> "none", val |-> 0]
NoResult == [kind |-> "none", val |-> [tag |-> "none", n |-> 0]]
NoHist == [startRunning |-> FALSE, start |-> "none", actionRuns |-> 0, finallyRuns |-> 0,
           upgrade |-> "none", stopCalled |-> FALSE, stop |-> "none"]

InitCommon(procs, modes) ==
    /\ os \in {"linux", "bsd"}
    /\ flock = [p \in procs |-> "none"]
    /\ handle = [p \in procs |-> "UnlockedFile"]
    /\ pc = [p \in procs |-> "start"]
    /\ mode \in [procs -> modes]
    /\ task = [p \in procs |-> NoTask]
    /\ result = [p \in procs |-> NoResult]
    /\ state = [p \in procs |-> "none"]
    /\ logged = [p \in procs |-> {}]
    /\ hist = [p \in procs |-> NoHist]

InitLock ==
    /\ InitCommon(LockProcs, {"lock"})
    /\ subject = [exists |-> FALSE, running |-> FALSE]

\* the caller takes what a lock operation returned; a blocked caller waits
TakeLock(p, r, waitpc) ==
    /\ handle' = [handle EXCEPT ![p] = r.handle]
    /\ flock' = r.flock
    /\ pc' = [pc EXCEPT ![p] = IF r.either = "Blocked" THEN waitpc ELSE "start"]
    /\ UNCHANGED <<os, mode, subject, task, result, state, logged, hist>>

Idle(p, type) == pc[p] = "start" /\ handle[p] = type

TryLockShared(p) ==
    \/ Idle(p, "UnlockedFile") /\ TakeLock(p, UnlockedFile_try_lock_shared(p), "start")
    \/ /\ Idle(p, "LockedFileExclusive")
       /\ TakeLock(p, LockedFileExclusive_try_lock_shared(p), "start")

LockShared(p) ==
    \/ /\ Idle(p, "UnlockedFile")
       /\ TakeLock(p, UnlockedFile_lock_shared(p), "blocked_shared")
    \/ /\ Idle(p, "LockedFileExclusive")
       /\ TakeLock(p, LockedFileExclusive_lock_shared(p), "blocked_shared")

TryLockExclusive(p) ==
    \/ /\ Idle(p, "UnlockedFile")
       /\ TakeLock(p, UnlockedFile_try_lock_exclusive(p), "start")
    \/ /\ Idle(p, "LockedFileShared")
       /\ TakeLock(p, LockedFileShared_try_lock_exclusive(p), "start")

LockExclusive(p) ==
    \/ /\ Idle(p, "UnlockedFile")
       /\ TakeLock(p, UnlockedFile_lock_exclusive(p), "blocked_exclusive")
    \/ /\ Idle(p, "LockedFileShared")
       /\ TakeLock(p, LockedFileShared_lock_exclusive(p), "blocked_exclusive")

TryUnlock(p) ==
    \/ /\ Idle(p, "LockedFileShared")
       /\ TakeLock(p, LockedFileShared_try_unlock(p), "start")
    \/ /\ Idle(p, "LockedFileExclusive")
       /\ TakeLock(p, LockedFileExclusive_try_unlock(p), "start")

Unlock(p) ==
    \/ Idle(p, "LockedFileShared") /\ TakeLock(p, LockedFileShared_unlock(p), "start")
    \/ /\ Idle(p, "LockedFileExclusive")
       /\ TakeLock(p, LockedFileExclusive_unlock(p), "start")

\* a process waiting inside a blocking flock(2) is granted the lock once no
\* conflicting lock is left
Granted(p) ==
    /\ pc[p] \in {"blocked_shared", "blocked_exclusive"}
    /\ LET arg == IF pc[p] = "blocked_shared" THEN "LockShared" ELSE "LockExclusive"
           ok == IF pc[p] = "blocked_shared" THEN "LockedFileShared"
                 ELSE "LockedFileExclusive"
       IN  /\ ~Conflict(p, arg)
           /\ TakeLock(p, BlockingResult(p, arg, ok), pc[p])

NextLock ==
    \E p \in P :
        \/ TryLockShared(p)
        \/ LockShared(p)
        \/ TryLockExclusive(p)
        \/ LockExclusive(p)
        \/ TryUnlock(p)
        \/ Unlock(p)
        \/ Granted(p)

SpecLock == InitLock /\ [][NextLock]_vars

--------------------------------------------------------------------------
(* The Subject: start, stop, destroy, exists, running (coordinate.rs:48-56), *)
(* as Cluster and the tests' SubjectExample implement them.  Each yields the *)
(* Result it returns and the subject's status afterwards.                    *)

Absent == [exists |-> FALSE, running |-> FALSE]
Stopped == [exists |-> TRUE, running |-> FALSE]
Running == [exists |-> TRUE, running |-> TRUE]

\* a slip: Modified reported although the subject was already running
Subject_start_AlwaysModified(ok) ==
    IF ~ok THEN [res |-> "Err", subject |-> subject]
    ELSE [res |-> "Modified", subject |-> Running]

\* start: creates the subject when needed; Unmodified when already running
Subject_start(ok) ==
    IF ~ok THEN [res |-> "Err", subject |-> subject]
    ELSE IF subject.running THEN [res |-> "Unmodified", subject |-> subject]
    ELSE [res |-> "Modified", subject |-> Running]

\* stop: Unmodified when not running
Subject_stop(ok) ==
    IF ~ok THEN [res |-> "Err", subject |-> subject]
    ELSE IF ~subject.running THEN [res |-> "Unmodified", subject |-> subject]
    ELSE [res |-> "Modified", subject |-> [subject EXCEPT !.running = FALSE]]

\* destroy: stop, then remove the data directory; Unmodified when there is none
Subject_destroy(ok) ==
    IF ~ok THEN [res |-> "Err", subject |-> subject]
    ELSE IF ~subject.exists THEN [res |-> "Unmodified", subject |-> Absent]
    ELSE [res |-> "Modified", subject |-> Absent]

--------------------------------------------------------------------------
(* coordinate/finally.rs *)

Val(tag, n) == [tag |-> tag, n |-> n]
NoVal == Val("none", 0)
Outcome(kind, val) == [kind |-> kind, val |-> val]

\* a slip: the error of finally propagated although the task panicked
with_finally_CleanupErrorWins(fin, tsk) ==
    [calls |-> <<"task", "finally">>,
     kind |-> IF fin.kind = "Err" THEN "Err" ELSE tsk.kind,
     val |-> IF fin.kind = "Err" THEN fin.val ELSE tsk.val,
     log |-> "none"]

\* a slip: finally not run when the task panicked
with_finally_SkipsOnPanic(fin, tsk) ==
    [calls |-> IF tsk.kind = "Panic" THEN <<"task">> ELSE <<"task", "finally">>,
     kind |-> IF tsk.kind = "Ok" THEN fin.kind ELSE tsk.kind,
     val |-> IF tsk.kind = "Ok" /\ fin.kind # "Ok" THEN fin.val ELSE tsk.val,
     log |-> "none"]

\* with_finally(finally, task): the closures it calls, in order, what it
\* returns (Ok / Err / Panic with the value, error or payload) and what it logs
with_finally(fin, tsk) ==
    CASE tsk.kind = "Ok" ->
            [calls |-> <<"task", "finally">>,
             kind |-> IF fin.kind = "Ok" THEN "Ok" ELSE fin.kind,
             val |-> IF fin.kind = "Ok" THEN tsk.val ELSE fin.val,
             log |-> CASE fin.kind = "Ok" -> "none"
                       [] fin.kind = "Err" -> "Task succeeded but cleaning-up failed"
                       [] OTHER -> "Task succeeded but cleaning-up panicked"]
      [] tsk.kind = "Err" ->
            [calls |-> <<"task", "finally">>,
             kind |-> "Err",
             val |-> tsk.val,
             log |-> CASE fin.kind = "Ok" -> "none"
                       [] fin.kind = "Err" -> "Task failed & cleaning-up also failed"
                       [] OTHER -> "Task failed & cleaning-up panicked (suppressed)"]
      [] OTHER ->
            [calls |-> <<"task", "finally">>,
             kind |-> "Panic",
             val |-> tsk.val,
             log |-> CASE fin.kind = "Ok" -> "none"
                       [] fin.kind = "Err" -> "Task panicked & cleaning-up failed"
                       [] OTHER ->
                            "Task panicked & cleaning-up also panicked (suppressed)"]

--------------------------------------------------------------------------
(* coordinate.rs: run_and_stop, run_and_stop_if_exists, run_and_destroy,   *)
(* and coordinate/guard.rs: Guard                                          *)

RunModes == {"run_and_stop", "run_and_stop_if_exists", "run_and_destroy"}
GuardModes == {"guard_stop", "guard_destroy"}
Modes == RunModes \cup GuardModes
\* a slip: a Guard in Destroy mode only stops
Destroys_NotGuard(p) == mode[p] = "run_and_destroy"

\* shutdown is given subject.destroy() (coordinate.rs:143, guard.rs:85)
Destroys(p) == mode[p] \in {"run_and_destroy", "guard_destroy"}

\* Processes are interchangeable, so the entry points are handed out in one
\* order only.
ModeRank(m) ==
    CASE m = "run_and_stop" -> 1
      [] m = "run_and_stop_if_exists" -> 2
      [] m = "run_and_destroy" -> 3
      [] m = "guard_stop" -> 4
      [] OTHER -> 5

\* no process has begun and the subject has not been created
Init ==
    /\ InitCommon(Procs, Modes)
    /\ \A p, q \in Procs : p < q => ModeRank(mode[p]) <= ModeRank(mode[q])
    /\ subject = Absent

Set(f, p, v) == [f EXCEPT ![p] = v]

\* a slip: the lock file kept open past the return
Return_KeepsLock(p, res, fl) ==
    /\ result' = Set(result, p, res)
    /\ pc' = Set(pc, p, "done")
    /\ flock' = fl
    /\ handle' = Set(handle, p, "UnlockedFile")

\* the entry point returns res to its caller; every lock value it still owns
\* is dropped, which closes the lock file
Return(p, res, fl) ==
    /\ result' = Set(result, p, res)
    /\ pc' = Set(pc, p, "done")
    /\ flock' = [fl EXCEPT ![p] = "none"]
    /\ handle' = Set(handle, p, "UnlockedFile")

Failed(err, p) == Outcome("Err", Val(err, p))

\* retries::retry on Outcome::Retry: the next delay of the backoff, or
\* Exhausted once its time has elapsed (coordinate.rs:326-332)
Retry(p, fl) ==
    \/ /\ pc' = Set(pc, p, "start")
       /\ flock' = fl
       /\ handle' = Set(handle, p, "UnlockedFile")
       /\ UNCHANGED result
    \/ Return(p, Failed("Exhausted", p), fl)

\* startup, the retried operation: try_lock_exclusive (coordinate.rs:158-161)
StartupTryExclusive(p) ==
    /\ pc[p] = "start"
    /\ LET r == UnlockedFile_try_lock_exclusive(p)
       IN  /\ flock' = r.flock
           /\ handle' = Set(handle, p, r.handle)
           /\ pc' = Set(pc, p, IF r.either = "Right" THEN "have_excl" ELSE "try_shared")
    /\ UNCHANGED <<os, mode, subject, task, result, state, logged, hist>>

\* startup: locked elsewhere, so try_lock_shared (coordinate.rs:162-170)
StartupTryShared(p) ==
    /\ pc[p] = "try_shared"
    /\ LET r == UnlockedFile_try_lock_shared(p)
       IN  IF r.either = "Right"
           THEN /\ flock' = r.flock
                /\ handle' = Set(handle, p, r.handle)
                /\ pc' = Set(pc, p, "check_running")
                /\ UNCHANGED result
           ELSE Retry(p, r.flock)
    /\ UNCHANGED <<os, mode, subject, task, state, logged, hist>>

\* startup: holding the shared lock, ask subject.running() (coordinate.rs:172-179)
StartupRunning(p) ==
    /\ pc[p] = "check_running"
    /\ \/ /\ subject.running
          /\ pc' = Set(pc, p, "action")
          /\ state' = Set(state, p, "Unmodified")
          /\ hist' = Set(hist, p, [hist[p] EXCEPT !.startRunning = subject.running])
          /\ UNCHANGED <<flock, handle, result>>
       \/ /\ ~subject.running
          /\ pc' = Set(pc, p, "unlock_retry")
          /\ UNCHANGED <<flock, handle, result, state, hist>>
       \/ /\ Return(p, Failed("ControlError", p), flock)
          /\ UNCHANGED <<state, hist>>
    /\ UNCHANGED <<os, mode, subject, task, logged>>

\* startup: not running, so unlock and retry (coordinate.rs:174-177)
StartupUnlockRetry(p) ==
    /\ pc[p] = "unlock_retry"
    /\ Retry(p, LockedFileShared_unlock(p).flock)
    /\ UNCHANGED <<os, mode, subject, task, state, logged, hist>>

\* a slip: startup_if_exists without the exists() check
StartupExclusive_NoExistsCheck(p) ==
    /\ pc[p] = "have_excl"
    /\ pc' = Set(pc, p, "starting")
    /\ UNCHANGED <<flock, handle, result>>
    /\ UNCHANGED <<os, mode, subject, task, state, logged, hist>>

\* startup with the exclusive lock: startup_if_exists asks subject.exists()
\* first; then subject.start begins (coordinate.rs:193-197, 249-259)
StartupExclusive(p) ==
    /\ pc[p] = "have_excl"
    /\ IF mode[p] = "run_and_stop_if_exists" /\ ~subject.exists
       THEN Return(p, Failed("DoesNotExist", p), flock)
       ELSE /\ pc' = Set(pc, p, "starting")
            /\ UNCHANGED <<flock, handle, result>>
    /\ UNCHANGED <<os, mode, subject, task, state, logged, hist>>

\* subject.start returns; on success downgrade to the shared lock and return
\* (lock, State::Modified) (coordinate.rs:195-199)
StartupStarted(p) ==
    /\ pc[p] = "starting"
    /\ \E ok \in BOOLEAN :
        LET s == Subject_start(ok)
        IN  /\ subject' = s.subject
            /\ IF s.res = "Err"
               THEN /\ Return(p, Failed("ControlError", p), flock)
                    /\ UNCHANGED <<state, hist>>
               ELSE LET r == LockedFileExclusive_lock_shared(p)
                    IN  /\ flock' = r.flock
                        /\ handle' = Set(handle, p, r.handle)
                        /\ pc' = Set(pc, p, "action")
                        /\ state' = Set(state, p, "Modified")
                        /\ hist' = Set(hist, p,
                                [hist[p] EXCEPT !.startRunning = s.subject.running,
                                                !.start = s.res])
                        /\ UNCHANGED result
    /\ UNCHANGED <<os, mode, task, logged>>

\* the action runs (the Guard's scope for a Guard): it returns a value, returns
\* an error value (T is a Result), or panics
ActionKinds(p) == IF mode[p] \in GuardModes THEN {"ok", "panic"} ELSE {"ok", "err", "panic"}

Action(p) ==
    /\ pc[p] = "action"
    /\ \E k \in ActionKinds(p) :
        task' = Set(task, p, [kind |-> k, val |-> p])
    /\ pc' = Set(pc, p, "shutdown")
    /\ hist' = Set(hist, p, [hist[p] EXCEPT !.actionRuns = @ + 1])
    /\ UNCHANGED <<os, flock, handle, mode, subject, result, state, logged>>

\* the task closure of run_and_*: || Ok(action()) (coordinate.rs:84)
TaskOutcome(p) ==
    IF task[p].kind = "panic"
    THEN Outcome("Panic", Val("action panic", task[p].val))
    ELSE Outcome("Ok", Val(IF task[p].kind = "err" THEN "action error" ELSE "action value",
                           task[p].val))

\* what the entry point hands to its caller once shutdown has ended with fin:
\* with_finally's answer for run_and_* (coordinate.rs:82-85), and for a Guard
\* the end of drop, which logs an error and goes on (guard.rs:76-98)
Finish(p, fin, fl) ==
    IF mode[p] \in RunModes
    THEN LET w == with_finally(fin, TaskOutcome(p))
         IN  /\ Return(p, Outcome(w.kind, w.val), fl)
             /\ logged' = Set(logged, p,
                    IF w.log = "none" THEN logged[p] ELSE logged[p] \cup {w.log})
    ELSE /\ Return(p, IF task[p].kind = "panic"
                      THEN Outcome("Panic", Val("action panic", task[p].val))
                      ELSE Outcome("Ok", Val("unit", 0)), fl)
         /\ logged' = Set(logged, p,
                IF fin.kind = "Err"
                THEN logged[p] \cup {IF mode[p] = "guard_stop"
                                     THEN "Error stopping subject"
                                     ELSE "Error destroying subject"}
                ELSE logged[p])

\* a slip: the upgrade made with the blocking lock_exclusive, which returns
\* only once every other lock is gone
ShutdownTry_Blocking(p) ==
    /\ pc[p] = "shutdown"
    /\ LET r == LockedFileShared_lock_exclusive(p)
       IN  /\ r.either = "Right"
           /\ flock' = r.flock
           /\ handle' = Set(handle, p, r.handle)
           /\ pc' = Set(pc, p, "stopping")
           /\ hist' = Set(hist, p, [hist[p] EXCEPT !.upgrade = r.either,
                                                   !.finallyRuns = @ + 1,
                                                   !.stopCalled = TRUE])
    /\ UNCHANGED <<os, mode, subject, task, result, state, logged>>

\* shutdown: try to upgrade to the exclusive lock (coordinate.rs:274)
ShutdownTry(p) ==
    /\ pc[p] = "shutdown"
    /\ LET r == LockedFileShared_try_lock_exclusive(p)
       IN  /\ flock' = r.flock
           /\ handle' = Set(handle, p, r.handle)
           /\ pc' = Set(pc, p, IF r.either = "Right" THEN "stopping" ELSE "unlock_left")
           /\ hist' = Set(hist, p, [hist[p] EXCEPT !.upgrade = r.either,
                                                   !.finallyRuns = @ + 1,
                                                   !.stopCalled = (r.either = "Right")])
    /\ UNCHANGED <<os, mode, subject, task, result, state, logged>>

\* a slip: the subject stopped although it is in use elsewhere
ShutdownInUse_Stops(p) ==
    /\ pc[p] = "unlock_left"
    /\ subject' = Subject_stop(TRUE).subject
    /\ Finish(p, Outcome("Ok", Val("None", 0)), LockedFileShared_unlock(p).flock)
    /\ UNCHANGED <<os, mode, task, state, hist>>

\* shutdown: in use elsewhere; unlock and return Ok(None) (coordinate.rs:275-280)
ShutdownInUse(p) ==
    /\ pc[p] = "unlock_left"
    /\ Finish(p, Outcome("Ok", Val("None", 0)), LockedFileShared_unlock(p).flock)
    /\ UNCHANGED <<os, mode, subject, task, state, hist>>

\* shutdown: subject.stop() or subject.destroy() returns; on success unlock and
\* return Ok(Some(state)), else the error (coordinate.rs:281-290)
ShutdownStopped(p) ==
    /\ pc[p] = "stopping"
    /\ \E ok \in BOOLEAN :
        LET s == IF Destroys(p) THEN Subject_destroy(ok) ELSE Subject_stop(ok)
        IN  /\ subject' = s.subject
            /\ hist' = Set(hist, p, [hist[p] EXCEPT !.stop = s.res])
            /\ IF s.res = "Err"
               THEN Finish(p, Failed("ControlError", p), flock)
               ELSE Finish(p, Outcome("Ok", Val(s.res, 0)),
                           LockedFileExclusive_unlock(p).flock)
    /\ UNCHANGED <<os, mode, task, state>>

Next ==
    \E p \in P :
        \/ StartupTryExclusive(p)
        \/ StartupTryShared(p)
        \/ StartupRunning(p)
        \/ StartupUnlockRetry(p)
        \/ StartupExclusive(p)
        \/ StartupStarted(p)
        \/ Action(p)
        \/ ShutdownTry(p)
        \/ ShutdownInUse(p)
        \/ ShutdownStopped(p)

Spec == Init /\ [][Next]_vars

--------------------------------------------------------------------------
(* with_finally on its own: the outcomes of the two closures are the inputs *)

FinProcs == {1}

Outcomes ==
    {Outcome(k, Val(t, n)) : k \in {"Ok", "Err", "Panic"}, t \in {"x"}, n \in 1..MaxVal}

TaskOutcomes == {Outcome(o.kind, Val("task", o.val.n)) : o \in Outcomes}
FinallyOutcomes == {Outcome(o.kind, Val("finally", o.val.n)) : o \in Outcomes}

InitFinally ==
    /\ os = "linux"
    /\ flock = [p \in FinProcs |-> "none"]
    /\ handle = [p \in FinProcs |-> "UnlockedFile"]
    /\ pc = [p \in FinProcs |-> "with_finally"]
    /\ mode = [p \in FinProcs |-> "with_finally"]
    /\ subject = Absent
    /\ task \in [FinProcs -> TaskOutcomes]
    /\ result = [p \in FinProcs |-> NoResult]
    /\ state = [p \in FinProcs |-> "none"]
    /\ logged = [p \in FinProcs |-> {}]
    /\ hist \in [FinProcs -> [calls : {<<>>}, fin : FinallyOutcomes]]

\* with_finally calls its next closure under catch_unwind
FinallyCall(p) ==
    /\ pc[p] = "with_finally"
    /\ LET w == with_finally(hist[p].fin, task[p])
       IN  /\ Len(hist[p].calls) < Len(w.calls)
           /\ hist' = Set(hist, p, [hist[p] EXCEPT
                    !.calls = Append(@, w.calls[Len(hist[p].calls) + 1])])
    /\ UNCHANGED <<os, flock, handle, pc, mode, subject, task, result, state, logged>>

\* with_finally returns, fails or resumes the panic
FinallyReturn(p) ==
    /\ pc[p] = "with_finally"
    /\ LET w == with_finally(hist[p].fin, task[p])
       IN  /\ Len(hist[p].calls) = Len(w.calls)
           /\ result' = Set(result, p, Outcome(w.kind, w.val))
           /\ logged' = Set(logged, p, IF w.log = "none" THEN {} ELSE {w.log})
    /\ pc' = Set(pc, p, "done")
    /\ UNCHANGED <<os, flock, handle, mode, subject, task, state, hist>>

NextFinally == \E p \in P : FinallyCall(p) \/ FinallyReturn(p)

SpecFinally == InitFinally /\ [][NextFinally]_vars

--------------------------------------------------------------------------
(* cluster/resource.rs: startup, shutdown, destroy over the typed resources *)
(* of coordinate/resource.rs                                                *)

InitResource ==
    /\ InitCommon(ResProcs, {"resource"})
    /\ subject = Absent

\* startup: resource.try_exclusive() (resource.rs:180)
ResTryExclusive(p) ==
    /\ pc[p] = "start"
    /\ LET r == UnlockedFile_try_lock_exclusive(p)
       IN  /\ flock' = r.flock
           /\ handle' = Set(handle, p, r.handle)
           /\ pc' = Set(pc, p, IF r.either = "Right" THEN "starting" ELSE "shared")
    /\ UNCHANGED <<os, mode, subject, task, result, state, logged, hist>>

\* startup: locked elsewhere; resource.shared() blocks until the shared lock
\* is granted (resource.rs:185)
ResShared(p) ==
    /\ \/ /\ pc[p] = "shared"
          /\ LET r == UnlockedFile_lock_shared(p)
             IN  /\ flock' = r.flock
                 /\ handle' = Set(handle, p, r.handle)
                 /\ pc' = Set(pc, p, IF r.either = "Right" THEN "check_running"
                                     ELSE "blocked_shared")
       \/ /\ pc[p] = "blocked_shared"
          /\ ~Conflict(p, "LockShared")
          /\ LET r == UnlockedFile_lock_shared(p)
             IN  /\ flock' = r.flock
                 /\ handle' = Set(handle, p, r.handle)
                 /\ pc' = Set(pc, p, "check_running")
    /\ UNCHANGED <<os, mode, subject, task, result, state, logged, hist>>

\* a slip: Unmodified returned without asking whether the cluster is running
ResRunning_Unchecked(p) ==
    /\ pc[p] = "check_running"
    /\ pc' = Set(pc, p, "held")
    /\ state' = Set(state, p, "Unmodified")
    /\ hist' = Set(hist, p, [hist[p] EXCEPT !.startRunning = subject.running])
    /\ UNCHANGED <<flock, handle, result>>
    /\ UNCHANGED <<os, mode, subject, task, logged>>

\* a slip: back to the top of the loop whether the cluster is running or not
ResRunning_AlwaysRetry(p) ==
    /\ pc[p] = "check_running"
    /\ pc' = Set(pc, p, "release_retry")
    /\ UNCHANGED <<flock, handle, result, state, hist>>
    /\ UNCHANGED <<os, mode, subject, task, logged>>

\* startup: with the shared lock, return Unmodified if the cluster is running,
\* else release (and, after the sleep, loop) (resource.rs:189-201)
ResRunning(p) ==
    /\ pc[p] = "check_running"
    /\ \/ /\ subject.running
          /\ pc' = Set(pc, p, "held")
          /\ state' = Set(state, p, "Unmodified")
          /\ hist' = Set(hist, p, [hist[p] EXCEPT !.startRunning = subject.running])
          /\ UNCHANGED <<flock, handle, result>>
       \/ /\ ~subject.running
          /\ pc' = Set(pc, p, "release_retry")
          /\ UNCHANGED <<flock, handle, result, state, hist>>
       \/ /\ Return(p, Failed("ControlError", p), flock)
          /\ UNCHANGED <<state, hist>>
    /\ UNCHANGED <<os, mode, subject, task, logged>>

\* startup: resource.release(), sleep, and back to the top (resource.rs:196-201)
ResReleaseRetry(p) ==
    /\ pc[p] = "release_retry"
    /\ LET r == LockedFileShared_unlock(p)
       IN  /\ flock' = r.flock
           /\ handle' = Set(handle, p, r.handle)
    /\ pc' = Set(pc, p, "start")
    /\ UNCHANGED <<os, mode, subject, task, result, state, logged, hist>>

\* startup: with the exclusive lock, start the cluster and return the State of
\* start with the exclusive resource (resource.rs:203-207)
ResStarted(p) ==
    /\ pc[p] = "starting"
    /\ \E ok \in BOOLEAN :
        LET s == Subject_start(ok)
        IN  /\ subject' = s.subject
            /\ IF s.res = "Err"
               THEN /\ Return(p, Failed("ControlError", p), flock)
                    /\ UNCHANGED <<state, hist>>
               ELSE /\ pc' = Set(pc, p, "held")
                    /\ state' = Set(state, p, s.res)
                    /\ hist' = Set(hist, p,
                            [hist[p] EXCEPT !.startRunning = s.subject.running,
                                            !.start = s.res])
                    /\ UNCHANGED <<flock, handle, result>>
    /\ UNCHANGED <<os, mode, task, logged>>

\* the caller of startup drops an exclusive hold down to shared
\* (ResourceExclusive::shared, coordinate/resource.rs:184-187)
ResDowngrade(p) ==
    /\ pc[p] = "held" /\ handle[p] = "LockedFileExclusive"
    /\ LET r == LockedFileExclusive_lock_shared(p)
       IN  /\ flock' = r.flock
           /\ handle' = Set(handle, p, r.handle)
    /\ UNCHANGED <<os, pc, mode, subject, task, result, state, logged, hist>>

\* the caller releases the resource (release, coordinate/resource.rs:144-147,
\* 202-205)
ResRelease(p) ==
    /\ pc[p] = "held"
    /\ Return(p, Outcome("Ok", Val("released", 0)),
              IF handle[p] = "LockedFileShared" THEN LockedFileShared_unlock(p).flock
              ELSE LockedFileExclusive_unlock(p).flock)
    /\ UNCHANGED <<os, mode, subject, task, state, logged, hist>>

\* shutdown / destroy: resource.try_exclusive() (resource.rs:270, 293)
ResShutdownTry(p) ==
    /\ pc[p] = "held" /\ handle[p] = "LockedFileShared"
    /\ hist[p].upgrade = "none"
    /\ LET r == LockedFileShared_try_lock_exclusive(p)
       IN  /\ flock' = r.flock
           /\ handle' = Set(handle, p, r.handle)
           /\ pc' = Set(pc, p, IF r.either = "Right" THEN "stopping" ELSE "held")
           /\ hist' = Set(hist, p, [hist[p] EXCEPT !.upgrade = r.either,
                                                   !.stopCalled = (r.either = "Right")])
    /\ \E m \in {"resource", "resource_destroy"} : mode' = Set(mode, p, m)
    /\ UNCHANGED <<os, subject, task, result, state, logged>>

\* shutdown / destroy with the exclusive lock: stop or destroy the cluster; on
\* an error release the resource and fail (resource.rs:276-285, 299-308)
ResStopped(p) ==
    /\ pc[p] = "stopping"
    /\ \E ok \in BOOLEAN :
        LET s == IF mode[p] = "resource_destroy" THEN Subject_destroy(ok)
                 ELSE Subject_stop(ok)
        IN  /\ subject' = s.subject
            /\ hist' = Set(hist, p, [hist[p] EXCEPT !.stop = s.res])
            /\ IF s.res = "Err"
               THEN Return(p, Failed("ControlError", p),
                           LockedFileExclusive_unlock(p).flock)
               ELSE /\ pc' = Set(pc, p, "held")
                    /\ UNCHANGED <<flock, handle, result>>
    /\ UNCHANGED <<os, mode, task, state, logged>>

NextResource ==
    \E p \in P :
        \/ ResTryExclusive(p)
        \/ ResShared(p)
        \/ ResRunning(p)
        \/ ResReleaseRetry(p)
        \/ ResStarted(p)
        \/ ResDowngrade(p)
        \/ ResRelease(p)
        \/ ResShutdownTry(p)
        \/ ResStopped(p)

SpecResource == InitResource /\ [][NextResource]_vars

\* startup under fair scheduling, when no call on the cluster fails and a
\* shutdown stops the cluster without destroying it: every process goes on
\* with the step of startup it is at, the sleep of the retry ends, a blocking
\* lock_shared returns once no exclusive lock is held, whoever returned from
\* startup with the exclusive lock drops down to shared or releases, a stop
\* that was begun returns, and whoever holds the lock after startup releases
\* it in the end; nothing obliges a process to shut the cluster down
StartupProcs == 1 .. NStartupProcs

InitStartupRace ==
    /\ InitCommon(StartupProcs, {"resource"})
    /\ subject = Absent

NoStartupError == \A p \in StartupProcs : result[p].kind # "Err"

Unfailing(A) == A /\ NoStartupError' /\ mode' = mode

ExclusiveWinnerLetsGo(p) ==
    /\ handle[p] = "LockedFileExclusive"
    /\ ResDowngrade(p) \/ ResRelease(p)

StartupFairness ==
    \A p \in StartupProcs :
        /\ WF_vars(Unfailing(ResTryExclusive(p)))
        /\ WF_vars(Unfailing(ResShared(p)))
        /\ WF_vars(Unfailing(ResRunning(p)))
        /\ WF_vars(Unfailing(ResReleaseRetry(p)))
        /\ WF_vars(Unfailing(ResStarted(p)))
        /\ WF_vars(Unfailing(ResStopped(p)))
        /\ WF_vars(Unfailing(ExclusiveWinnerLetsGo(p)))
        /\ WF_vars(Unfailing(ResRelease(p)))

NextStartupRace == Unfailing(NextResource)

SpecStartupFair == InitStartupRace /\ [][NextStartupRace]_vars /\ StartupFairness

--------------------------------------------------------------------------
(* version/current.rs: Version; PartialVersion and its compatible relation; *)
(* runtime/constraint.rs: Constraint; runtime/strategy.rs: Strategy         *)

\* Version::Pre10(major, point, minor) and Version::Post10(major, minor)
Pre10(a, b, c) == [kind |-> "Pre10", a |-> a, b |-> b, c |-> c]
Post10(a, b) == [kind |-> "Post10", a |-> a, b |-> b, c |-> 0]
NoVersion == [kind |-> "none", a |-> 0, b |-> 0, c |-> 0]

\* derive(PartialOrd, Ord): variants in declaration order, then the fields,
\* lexicographically
Version_le(v, w) ==
    IF v.kind # w.kind THEN v.kind = "Pre10"
    ELSE \/ v.a < w.a
         \/ v.a = w.a /\ v.b < w.b
         \/ v.a = w.a /\ v.b = w.b /\ v.c <= w.c

\* PartialVersion: a Version whose trailing components may be absent
Pre10m(a) == [kind |-> "Pre10m", a |-> a, b |-> 0, c |-> 0]
Pre10mm(a, b) == [kind |-> "Pre10mm", a |-> a, b |-> b, c |-> 0]
Pre10mmm(a, b, c) == [kind |-> "Pre10mmm", a |-> a, b |-> b, c |-> c]
Post10m(a) == [kind |-> "Post10m", a |-> a, b |-> 0, c |-> 0]
Post10mm(a, b) == [kind |-> "Post10mm", a |-> a, b |-> b, c |-> 0]

\* every component present in the partial version equals the corresponding
\* component of the version
PartialVersion_compatible(pv, v) ==
    CASE pv.kind = "Pre10m" -> v.kind = "Pre10" /\ pv.a = v.a
      [] pv.kind = "Pre10mm" -> v.kind = "Pre10" /\ pv.a = v.a /\ pv.b = v.b
      [] pv.kind = "Pre10mmm" -> v.kind = "Pre10" /\ pv.a = v.a /\ pv.b = v.b /\ pv.c = v.c
      [] pv.kind = "Post10m" -> v.kind = "Post10" /\ pv.a = v.a
      [] pv.kind = "Post10mm" -> v.kind = "Post10" /\ pv.a = v.a /\ pv.b = v.b
      [] OTHER -> FALSE

\* Runtime: bindir and version; None is NoRuntime
Runtime(bindir, version) == [bindir |-> bindir, version |-> version]
NoRuntime == Runtime(0, NoVersion)

\* Constraint and Constraint::matches; a BinDir glob is the set of the
\* directories it matches
Constraint_BinDir(dirs) == [tag |-> "BinDir", dirs |-> dirs]
Constraint_Version(pv) == [tag |-> "Version", version |-> pv]
Constraint_Either(ca, cb) == [tag |-> "Either", ca |-> ca, cb |-> cb]
Constraint_Both(ca, cb) == [tag |-> "Both", ca |-> ca, cb |-> cb]
Constraint_Not(c) == [tag |-> "Not", c |-> c]
Constraint_Anything == [tag |-> "Anything"]
Constraint_Nothing == [tag |-> "Nothing"]

RECURSIVE Constraint_matches(_, _)
Constraint_matches(c, runtime) ==
    CASE c.tag = "BinDir" -> runtime.bindir \in c.dirs
      [] c.tag = "Version" -> PartialVersion_compatible(c.version, runtime.version)
      [] c.tag = "Either" -> Constraint_matches(c.ca, runtime) \/ Constraint_matches(c.cb, runtime)
      [] c.tag = "Both" -> Constraint_matches(c.ca, runtime) /\ Constraint_matches(c.cb, runtime)
      [] c.tag = "Not" -> ~Constraint_matches(c.c, runtime)
      [] c.tag = "Anything" -> TRUE
      [] OTHER -> FALSE

\* Iterator::max_by(|ra, rb| ra.version.cmp(&rb.version)): the last of the
\* elements of the highest version, None for no element
RECURSIVE MaxByVersion(_)
MaxByVersion(rts) ==
    IF rts = <<>> THEN NoRuntime
    ELSE LET rest == MaxByVersion(Tail(rts))
         IN  IF rest # NoRuntime /\ Version_le(Head(rts).version, rest.version)
             THEN rest ELSE Head(rts)

\* a slip: every runtime kept, whether or not its version was seen
Dedup_KeepsAll(rts, seen) == rts

\* filter(move |runtime| seen.insert(runtime.version))
RECURSIVE Dedup(_, _)
Dedup(rts, seen) ==
    IF rts = <<>> THEN <<>>
    ELSE IF Head(rts).version \in seen THEN Dedup(Tail(rts), seen)
    ELSE <<Head(rts)>> \o Dedup(Tail(rts), seen \cup {Head(rts).version})

\* StrategyLike's default select and fallback, over what runtimes() yields
StrategyLike_select(rts, constraint) ==
    MaxByVersion(SelectSeq(rts, LAMBDA r : Constraint_matches(constraint, r)))

StrategyLike_fallback(rts) == MaxByVersion(rts)

\* Strategy: Chain(strategies), Delegated(a StrategyLike, here the runtimes
\* it finds, in the order it yields them), Single(runtime)
Strategy_Chain(chain) == [tag |-> "Chain", chain |-> chain]
Strategy_Delegated(rts) == [tag |-> "Delegated", rts |-> rts]
Strategy_Single(runtime) == [tag |-> "Single", runtime |-> runtime]

RECURSIVE Strategy_all(_)
Strategy_all(s) ==
    CASE s.tag = "Chain" ->
            IF s.chain = <<>> THEN <<>>
            ELSE Strategy_all(Head(s.chain)) \o Strategy_all(Strategy_Chain(Tail(s.chain)))
      [] s.tag = "Delegated" -> s.rts
      [] OTHER -> <<s.runtime>>

RECURSIVE Strategy_runtimes(_)
Strategy_runtimes(s) ==
    CASE s.tag = "Chain" ->
            LET RECURSIVE Flat(_)
                Flat(ch) == IF ch = <<>> THEN <<>>
                            ELSE Strategy_runtimes(Head(ch)) \o Flat(Tail(ch))
            IN  Dedup(Flat(s.chain), {})
      [] s.tag = "Delegated" -> Dedup(s.rts, {})
      [] OTHER -> <<s.runtime>>

\* a slip: the constraint not looked at
Strategy_select_Unconstrained(s, constraint) == StrategyLike_fallback(Strategy_all(s))

\* a slip: the chain's runtimes pooled, then the highest version chosen
Strategy_select_Pooled(s, constraint) == StrategyLike_select(Strategy_runtimes(s), constraint)

RECURSIVE Strategy_select(_, _)
Strategy_select(s, constraint) ==
    CASE s.tag = "Chain" ->
            IF s.chain = <<>> THEN NoRuntime
            ELSE LET first == Strategy_select(Head(s.chain), constraint)
                 IN  IF first # NoRuntime THEN first
                     ELSE Strategy_select(Strategy_Chain(Tail(s.chain)), constraint)
      [] s.tag = "Delegated" -> StrategyLike_select(s.rts, constraint)
      [] OTHER -> IF Constraint_matches(constraint, s.runtime) THEN s.runtime ELSE NoRuntime

RECURSIVE Strategy_fallback(_)
Strategy_fallback(s) ==
    CASE s.tag = "Chain" ->
            IF s.chain = <<>> THEN NoRuntime
            ELSE LET first == Strategy_fallback(Head(s.chain))
                 IN  IF first # NoRuntime THEN first
                     ELSE Strategy_fallback(Strategy_Chain(Tail(s.chain)))
      [] s.tag = "Delegated" -> StrategyLike_fallback(s.rts)
      [] OTHER -> s.runtime

--------------------------------------------------------------------------
(* cluster.rs: Cluster, over a data directory and the pg_ctl of a runtime. *)
(* A cluster is datadir (the directory is there), pgversion (the content   *)
(* of datadir/PG_VERSION, NoVersion when the file is missing) and running. *)

ClusterAbsent == [datadir |-> FALSE, pgversion |-> NoVersion, running |-> FALSE]

\* exists(datadir): the directory is there and holds a file PG_VERSION
Cluster_exists(c) == c.datadir /\ c.pgversion # NoVersion

\* version(datadir): PG_VERSION parsed, None when it is not found
Cluster_version(c) == IF c.datadir THEN c.pgversion ELSE NoVersion

\* what initdb writes to PG_VERSION: major.point before 10, major from 10 on
PgVersionFile(v) == IF v.kind = "Pre10" THEN Pre10mm(v.a, v.b) ELSE Post10m(v.a)

\* Cluster::runtime: the strategy's fallback for a cluster without
\* PG_VERSION, else a runtime the strategy selects for that version
\* a slip: the fallback runtime whatever PG_VERSION says
Cluster_runtime_Fallback(c, strategy) ==
    LET r == Strategy_fallback(strategy)
    IN  [err |-> IF r = NoRuntime THEN "RuntimeDefaultNotFound" ELSE "none",
         runtime |-> r, used |-> IF Cluster_version(c) = NoVersion THEN "fallback" ELSE "select"]

Cluster_runtime(c, strategy) ==
    IF Cluster_version(c) = NoVersion
    THEN LET r == Strategy_fallback(strategy)
         IN  [err |-> IF r = NoRuntime THEN "RuntimeDefaultNotFound" ELSE "none",
              runtime |-> r, used |-> "fallback"]
    ELSE LET r == Strategy_select(strategy, Constraint_Version(Cluster_version(c)))
         IN  [err |-> IF r = NoRuntime THEN "RuntimeNotFound" ELSE "none",
              runtime |-> r, used |-> "select"]

\* the exit code of `pg_ctl status`, as the pg_ctl of each version documents it
PgCtl_status(v, c) ==
    IF c.running THEN 0
    ELSE IF v.kind = "Post10" \/ (v.a = 9 /\ v.b >= 4)
    THEN IF Cluster_exists(c) THEN 3 ELSE 4
    ELSE IF v.a = 9 /\ v.b >= 2 THEN 3
    ELSE 1

\* a slip: exit code 4 taken for stopped whether or not PG_VERSION is there
Cluster_running_decode_Code4(v, code, exists) ==
    IF code = 0 THEN "true"
    ELSE IF v.kind = "Post10" \/ (v.a = 9 /\ v.b >= 4)
    THEN IF code \in {3, 4} THEN "false" ELSE "UnsupportedVersion"
    ELSE IF v.a = 9 /\ v.b >= 2
    THEN IF code = 3 THEN "false" ELSE "UnsupportedVersion"
    ELSE IF v.a = 9 /\ code = 1 THEN "false" ELSE "UnsupportedVersion"

\* Cluster::running, from the exit code on: Some(true), Some(false), or
\* None, which becomes UnsupportedVersion
Cluster_running_decode(v, code, exists) ==
    IF code = 0 THEN "true"
    ELSE IF v.kind = "Post10"
    THEN IF code = 3 \/ (code = 4 /\ ~exists) THEN "false" ELSE "UnsupportedVersion"
    ELSE IF v.a = 9
    THEN IF v.b >= 4
         THEN IF code = 3 \/ (code = 4 /\ ~exists) THEN "false" ELSE "UnsupportedVersion"
         ELSE IF v.b >= 2
         THEN IF code = 3 THEN "false" ELSE "UnsupportedVersion"
         ELSE IF code = 1 THEN "false" ELSE "UnsupportedVersion"
    ELSE "UnsupportedVersion"

\* Cluster::running: the error, or "true" / "false"
Cluster_running(c, strategy) ==
    LET rt == Cluster_runtime(c, strategy)
    IN  IF rt.err # "none" THEN rt.err
        ELSE Cluster_running_decode(rt.runtime.version,
                                    PgCtl_status(rt.runtime.version, c),
                                    Cluster_exists(c))

\* Each operation yields what it returns (Modified, Unmodified or the error)
\* and the cluster afterwards.  env tells which pg_ctl commands do their
\* work; the exit status of init, start and stop is not looked at.
CmdEnv == [init : BOOLEAN, start : BOOLEAN, stop : BOOLEAN]

\* a slip: initdb run whether or not the cluster exists
Cluster_create_Again(c, strategy, env) ==
    LET made == [c EXCEPT !.datadir = TRUE]
        rt == Cluster_runtime(made, strategy)
    IN  IF rt.err # "none" THEN [res |-> rt.err, c |-> made]
        ELSE [res |-> "Modified",
              c |-> IF env.init
                    THEN [made EXCEPT !.pgversion = PgVersionFile(rt.runtime.version)]
                    ELSE made]

Cluster_create(c, strategy, env) ==
    IF Cluster_exists(c) THEN [res |-> "Unmodified", c |-> c]
    ELSE LET made == [c EXCEPT !.datadir = TRUE]
             rt == Cluster_runtime(made, strategy)
         IN  IF rt.err # "none" THEN [res |-> rt.err, c |-> made]
             ELSE [res |-> "Modified",
                   c |-> IF env.init
                         THEN [made EXCEPT !.pgversion = PgVersionFile(rt.runtime.version)]
                         ELSE made]

Cluster_start(c, strategy, env) ==
    LET created == Cluster_create(c, strategy, env)
    IN  IF created.res \notin {"Modified", "Unmodified"} THEN created
        ELSE LET running == Cluster_running(created.c, strategy)
             IN  IF running = "true" THEN [res |-> "Unmodified", c |-> created.c]
                 ELSE IF running # "false" THEN [res |-> running, c |-> created.c]
                 ELSE [res |-> "Modified",
                       c |-> IF env.start /\ Cluster_exists(created.c)
                             THEN [created.c EXCEPT !.running = TRUE]
                             ELSE created.c]

\* a slip: pg_ctl stop run without asking whether the cluster is running
Cluster_stop_Unchecked(c, strategy, env) ==
    [res |-> "Modified", c |-> [c EXCEPT !.running = FALSE]]

Cluster_stop(c, strategy, env) ==
    LET running == Cluster_running(c, strategy)
    IN  IF running = "false" THEN [res |-> "Unmodified", c |-> c]
        ELSE IF running # "true" THEN [res |-> running, c |-> c]
        ELSE [res |-> "Modified",
              c |-> IF env.stop THEN [c EXCEPT !.running = FALSE] ELSE c]

Cluster_destroy(c, strategy, env) ==
    LET stopped == Cluster_stop(c, strategy, env)
    IN  IF stopped.res \notin {"Modified", "Unmodified"} THEN stopped
        ELSE IF stopped.c.datadir
        THEN [res |-> "Modified",
              c |-> [stopped.c EXCEPT !.datadir = FALSE, !.pgversion = NoVersion]]
        ELSE [res |-> "Unmodified", c |-> stopped.c]

--------------------------------------------------------------------------
(* One actor calling the lifecycle operations of a Cluster in any order *)

ClusterProcs == {1}
ClusterVersions == {Post10(14, 2), Pre10(9, 6, 1), Pre10(9, 3, 0), Pre10(9, 1, 0),
                    Pre10(8, 4, 0)}
ClusterStrategies ==
    {Strategy_Single(Runtime(1, v)) : v \in ClusterVersions}
        \cup {Strategy_Chain(<<>>),
              Strategy_Chain(<<Strategy_Delegated(<<Runtime(1, Pre10(9, 6, 1)),
                                                    Runtime(2, Post10(14, 2))>>)>>)}

\* the calls of the lifecycle idempotence test, and how far they were followed
Script == <<"create", "create", "start", "start", "stop", "stop", "destroy", "destroy">>
OffScript == Len(Script) + 1

InitCluster ==
    /\ os \in {"linux", "bsd"}
    /\ flock = [p \in ClusterProcs |-> "none"]
    /\ handle = [p \in ClusterProcs |-> "UnlockedFile"]
    /\ pc = [p \in ClusterProcs |-> "start"]
    /\ mode = [p \in ClusterProcs |-> "cluster"]
    /\ task = [p \in ClusterProcs |-> NoTask]
    /\ result = [p \in ClusterProcs |-> [kind |-> "none", val |-> "none"]]
    /\ state = [p \in ClusterProcs |-> "none"]
    /\ logged = [p \in ClusterProcs |-> {}]
    /\ hist \in [ClusterProcs -> [strategy : ClusterStrategies, script : {0}]]
    /\ subject = ClusterAbsent

\* the call returns r; it follows the script if it is the script's next call
\* and every pg_ctl command did its work
Called(p, op, r, env) ==
    /\ subject' = r.c
    /\ result' = [result EXCEPT ![p] = [kind |-> op, val |-> r.res]]
    /\ hist' = [hist EXCEPT ![p].script =
                    IF /\ hist[p].script < Len(Script)
                       /\ op = Script[hist[p].script + 1]
                       /\ env = [init |-> TRUE, start |-> TRUE, stop |-> TRUE]
                    THEN hist[p].script + 1 ELSE OffScript]
    /\ UNCHANGED <<os, flock, handle, pc, mode, task, state, logged>>

Create(p) ==
    \E env \in CmdEnv : Called(p, "create", Cluster_create(subject, hist[p].strategy, env), env)

Start(p) ==
    \E env \in CmdEnv : Called(p, "start", Cluster_start(subject, hist[p].strategy, env), env)

Stop(p) ==
    \E env \in CmdEnv : Called(p, "stop", Cluster_stop(subject, hist[p].strategy, env), env)

Destroy(p) ==
    \E env \in CmdEnv : Called(p, "destroy", Cluster_destroy(subject, hist[p].strategy, env), env)

NextCluster ==
    \E p \in P :
        \/ Create(p)
        \/ Start(p)
        \/ Stop(p)
        \/ Destroy(p)

SpecCluster == InitCluster /\ [][NextCluster]_vars

--------------------------------------------------------------------------
(* pgdo-cli command/backup.rs, backup: the base backup is made in a        *)
(* temporary directory of the destination and then renamed to data.N under *)
(* the destination's coordinating lock (.lock).  The destination is the    *)
(* set of its data.N entries, each with the backup that made it (0: it was *)
(* there before).  Whether u32 overflow panics or wraps depends on the     *)
(* build profile (overflow-checks), chosen per process.                    *)

BackupProcs == 1..NBackups
BackupBuilds == {"overflow_checks", "wrapping"}

\* the numbers the entries named data.N parse to: filter_map(.. parse::<u32>())
Parsed(entries) == {e.n : e \in entries}

\* .max().unwrap_or_default()
MaxOrDefault(ns) == IF ns = {} THEN 0 ELSE CHOOSE n \in ns : \A m \in ns : m <= n

\* .max().unwrap_or_default() + 1 in u32: a panic with overflow checks, else
\* the sum modulo 2^32
NextDataNumber(entries, build) ==
    LET max == MaxOrDefault(Parsed(entries))
    IN  [panic |-> max = MaxU32 /\ build = "overflow_checks",
         n |-> (max + 1) % (MaxU32 + 1)]

InitBackup ==
    /\ os \in {"linux", "bsd"}
    /\ flock = [p \in BackupProcs |-> "none"]
    /\ handle = [p \in BackupProcs |-> "UnlockedFile"]
    /\ pc = [p \in BackupProcs |-> "basebackup"]
    /\ mode \in [BackupProcs -> BackupBuilds]
    /\ \A p, q \in BackupProcs : p <= q => (mode[p] = mode[q] \/ mode[p] = "overflow_checks")
    /\ task = [p \in BackupProcs |-> NoTask]
    /\ result = [p \in BackupProcs |-> NoResult]
    /\ state = [p \in BackupProcs |-> "none"]
    /\ logged = [p \in BackupProcs |-> {}]
    /\ hist = [p \in BackupProcs |-> [seen |-> {}]]
    /\ \E ns \in SUBSET (0..MaxU32) : subject = [entries |-> {[n |-> n, owner |-> 0] : n \in ns}]

\* a slip: the exit status of pg_basebackup not looked at
BaseBackup_Unchecked(p) ==
    /\ pc[p] = "basebackup"
    /\ \E ok \in BOOLEAN :
        /\ state' = Set(state, p, IF ok THEN "success" ELSE "failure")
        /\ pc' = Set(pc, p, "lock")
        /\ UNCHANGED result
    /\ UNCHANGED <<os, flock, handle, mode, subject, task, logged, hist>>

\* pg_basebackup into the temporary directory, state being how it exited;
\* nothing is renamed when it fails
BaseBackup(p) ==
    /\ pc[p] = "basebackup"
    /\ \E ok \in BOOLEAN :
        /\ state' = Set(state, p, IF ok THEN "success" ELSE "failure")
        /\ IF ok THEN /\ pc' = Set(pc, p, "lock")
                      /\ UNCHANGED result
           ELSE /\ pc' = Set(pc, p, "done")
                /\ result' = Set(result, p, Outcome("Err", Val("pg_basebackup failed", 0)))
    /\ UNCHANGED <<os, flock, handle, mode, subject, task, logged, hist>>

\* UnlockedFile::try_from(destination/.lock)?.lock_exclusive()?: waits until
\* no other backup holds the lock
BackupLock(p) ==
    /\ pc[p] \in {"lock", "blocked_exclusive"}
    /\ pc[p] = "blocked_exclusive" => ~Conflict(p, "LockExclusive")
    /\ LET r == UnlockedFile_lock_exclusive(p)
       IN  /\ flock' = r.flock
           /\ handle' = Set(handle, p, r.handle)
           /\ pc' = Set(pc, p, IF r.either = "Right" THEN "read_dir" ELSE "blocked_exclusive")
    /\ UNCHANGED <<os, mode, subject, task, result, state, logged, hist>>

\* read_dir(destination) and the name data.{max + 1}; an overflow panic
\* unwinds, which drops the lock
BackupReadDir(p) ==
    /\ pc[p] = "read_dir"
    /\ LET next == NextDataNumber(subject.entries, mode[p])
       IN  /\ hist' = Set(hist, p, [seen |-> Parsed(subject.entries)])
           /\ IF next.panic
              THEN /\ Return(p, Outcome("Panic", Val("attempt to add with overflow", 0)),
                             DropLock(p))
                   /\ UNCHANGED task
              ELSE /\ task' = Set(task, p, [kind |-> "destination_data", val |-> next.n])
                   /\ pc' = Set(pc, p, "rename")
                   /\ UNCHANGED <<flock, handle, result>>
    /\ UNCHANGED <<os, mode, subject, state, logged>>

\* std::fs::rename(tmp, data.N)?, which fails on a directory that is there
\* and not empty; then drop(destination_lock)
BackupRename(p) ==
    /\ pc[p] = "rename"
    /\ IF task[p].val \in Parsed(subject.entries)
       THEN /\ Return(p, Outcome("Err", Val("rename failed", task[p].val)), DropLock(p))
            /\ UNCHANGED subject
       ELSE /\ subject' = [entries |-> subject.entries \cup {[n |-> task[p].val, owner |-> p]}]
            /\ Return(p, Outcome("Ok", Val("destination_data", task[p].val)), DropLock(p))
    /\ UNCHANGED <<os, mode, task, state, logged, hist>>

NextBackup ==
    \E p \in P :
        \/ BaseBackup(p)
        \/ BackupLock(p)
        \/ BackupReadDir(p)
        \/ BackupRename(p)

SpecBackup == InitBackup /\ [][NextBackup]_vars

--------------------------------------------------------------------------
(* pgdo-cli command/backup.rs, BackupTools::invoke, wal:archive: the copy  *)
(* of one WAL file to the archive.  A file is Missing or holds a sequence  *)
(* of bytes; a read or a write can fail for reasons outside the program.   *)

Byte == {0, 1}
Contents == UNION {[1..n -> Byte] : n \in 0..MaxWalLen}
Missing == [exists |-> FALSE, bytes |-> <<>>]
File(bytes) == [exists |-> TRUE, bytes |-> bytes]
Files == {Missing} \cup {File(bytes) : bytes \in Contents}
Prefixes(bytes) == {SubSeq(bytes, 1, n) : n \in 0..(Len(bytes) - 1)}

\* std::fs::read: the bytes, NotFound for a file that is not there, or
\* another error when the file cannot be read
ReadOk(bytes) == [ok |-> TRUE, kind |-> "none", bytes |-> bytes]
ReadErr(kind) == [ok |-> FALSE, kind |-> kind, bytes |-> <<>>]
Read(file, fails) ==
    IF file = Missing THEN ReadErr("NotFound")
    ELSE IF fails THEN ReadErr("Other")
    ELSE ReadOk(file.bytes)

\* std::fs::write: the file holds the bytes, or the write fails leaving the
\* file as it was (it could not be created) or with only the start of the bytes
WriteOutcomes(file, bytes) ==
    {[ok |-> TRUE, file |-> File(bytes)], [ok |-> FALSE, file |-> file]}
        \cup {[ok |-> FALSE, file |-> File(part)] : part \in Prefixes(bytes)}

\* a slip: differing contents are archived over the old ones
WalArchive_Overwrites(source, target, write) ==
    IF source.ok /\ ~target.ok /\ target.kind = "NotFound"
        THEN [exit |-> IF write.ok THEN "SUCCESS" ELSE "FAILURE", written |-> TRUE]
    ELSE IF source.ok /\ target.ok
        THEN [exit |-> IF write.ok THEN "SUCCESS" ELSE "FAILURE", written |-> TRUE]
    ELSE [exit |-> "FAILURE", written |-> FALSE]

\* match (read(&source), read(&target)): the exit code, and whether
\* write(&target, wal_in) ran
WalArchive(source, target, write) ==
    IF source.ok /\ ~target.ok /\ target.kind = "NotFound"
        THEN [exit |-> IF write.ok THEN "SUCCESS" ELSE "FAILURE", written |-> TRUE]
    ELSE IF source.ok /\ target.ok /\ source.bytes = target.bytes
        THEN [exit |-> "SUCCESS", written |-> FALSE]
    ELSE IF source.ok /\ target.ok
        THEN [exit |-> "FAILURE", written |-> FALSE]
    ELSE [exit |-> "FAILURE", written |-> FALSE]

WalProcs == {1}
NoRun == [run |-> FALSE, source |-> Missing, before |-> Missing, after |-> Missing,
          exit |-> "none", ioerr |-> FALSE]

InitWal ==
    /\ os \in {"linux", "bsd"}
    /\ flock = [p \in WalProcs |-> "none"]
    /\ handle = [p \in WalProcs |-> "UnlockedFile"]
    /\ pc = [p \in WalProcs |-> "idle"]
    /\ mode = [p \in WalProcs |-> "wal:archive"]
    /\ task = [p \in WalProcs |-> NoTask]
    /\ result = [p \in WalProcs |-> NoResult]
    /\ state = [p \in WalProcs |-> "none"]
    /\ logged = [p \in WalProcs |-> {}]
    /\ hist = [prev |-> NoRun, last |-> NoRun]
    /\ subject \in [source : Files, target : Files]

\* one run of wal:archive on (source, target)
WalArchiveRun(p) ==
    /\ \E sfails, tfails \in BOOLEAN :
        LET source == Read(subject.source, sfails)
            target == Read(subject.target, tfails)
        IN  \E write \in WriteOutcomes(subject.target,
                                       IF source.ok THEN source.bytes ELSE <<>>) :
                LET r == WalArchive(source, target, write)
                    after == IF r.written THEN write.file ELSE subject.target
                    ioerr == \/ (sfails /\ subject.source # Missing)
                             \/ (tfails /\ subject.target # Missing)
                             \/ (r.written /\ ~write.ok)
                IN  /\ r.written \/ write.ok
                    /\ subject' = [subject EXCEPT !.target = after]
                    /\ result' = Set(result, p, [kind |-> "exit", val |-> r.exit])
                    /\ hist' = [prev |-> hist.last,
                                last |-> [run |-> TRUE, source |-> subject.source,
                                          before |-> subject.target, after |-> after,
                                          exit |-> r.exit, ioerr |-> ioerr]]
    /\ UNCHANGED <<os, flock, handle, pc, mode, task, state, logged>>

\* between runs the source may be rewritten or removed; nothing but
\* wal:archive writes the target
SourceChanges(p) ==
    /\ \E file \in Files \ {subject.source} :
        subject' = [subject EXCEPT !.source = file]
    /\ UNCHANGED <<os, flock, handle, pc, mode, task, result, state, logged, hist>>

NextWal ==
    \E p \in P :
        \/ WalArchiveRun(p)
        \/ SourceChanges(p)

SpecWal == InitWal /\ [][NextWal]_vars

--------------------------------------------------------------------------
(* The runtime a Cluster resolves on each use: the lifecycle operations    *)
(* and exec, on a cluster that may have been made by a PostgreSQL the      *)
(* strategy does not know.                                                 *)

RuntimeStrategies ==
    ClusterStrategies
        \cup {Strategy_Chain(<<Strategy_Single(Runtime(1, Pre10(9, 6, 1))),
                               Strategy_Delegated(<<Runtime(2, Post10(14, 2)),
                                                    Runtime(3, Pre10(9, 6, 5)),
                                                    Runtime(4, Post10(14, 5)),
                                                    Runtime(5, Post10(15, 0))>>)>>),
              Strategy_Chain(<<Strategy_Delegated(<<>>),
                               Strategy_Chain(<<Strategy_Single(Runtime(1, Post10(14, 2))),
                                                Strategy_Single(Runtime(2, Post10(15, 1)))>>)>>)}

\* a cluster made earlier, by any PostgreSQL, and now stopped
ClustersFound ==
    {ClusterAbsent}
        \cup {[datadir |-> TRUE, pgversion |-> PgVersionFile(v), running |-> FALSE] :
                v \in ClusterVersions \cup {Post10(15, 0)}}

InitRuntime ==
    /\ os \in {"linux", "bsd"}
    /\ flock = [p \in ClusterProcs |-> "none"]
    /\ handle = [p \in ClusterProcs |-> "UnlockedFile"]
    /\ pc = [p \in ClusterProcs |-> "start"]
    /\ mode = [p \in ClusterProcs |-> "cluster"]
    /\ task = [p \in ClusterProcs |-> NoTask]
    /\ result = [p \in ClusterProcs |-> [kind |-> "none", val |-> "none"]]
    /\ state = [p \in ClusterProcs |-> "none"]
    /\ logged = [p \in ClusterProcs |-> {}]
    /\ hist \in [ClusterProcs -> [strategy : RuntimeStrategies, script : {OffScript}]]
    /\ subject \in ClustersFound

\* Cluster::exec: the runtime is resolved, then the command is run with it
Exec(p) ==
    /\ LET rt == Cluster_runtime(subject, hist[p].strategy)
       IN  /\ task' = Set(task, p, [kind |-> "runtime",
                                    val |-> [version |-> Cluster_version(subject), rt |-> rt]])
           /\ result' = Set(result, p, [kind |-> "exec",
                                        val |-> IF rt.err # "none" THEN rt.err ELSE "ExitStatus"])
    /\ UNCHANGED <<os, flock, handle, pc, mode, subject, state, logged, hist>>

NextRuntime ==
    \E p \in P :
        \/ Exec(p)
        \/ Create(p)
        \/ Start(p)
        \/ Stop(p)
        \/ Destroy(p)

SpecRuntime == InitRuntime /\ [][NextRuntime]_vars

--------------------------------------------------------------------------
(* Cluster::running on its own: the version of the runtime resolved,       *)
(* whether datadir/PG_VERSION is there, and any exit code of pg_ctl status *)

StatusVersions ==
    {Post10(a, b) : a \in {10, 14}, b \in {0, 2}}
        \cup {Pre10(a, b, c) : a \in {8, 9}, b \in 0..6, c \in {0, 1}}

InitRunning ==
    /\ os \in {"linux", "bsd"}
    /\ flock = [p \in ClusterProcs |-> "none"]
    /\ handle = [p \in ClusterProcs |-> "UnlockedFile"]
    /\ pc = [p \in ClusterProcs |-> "start"]
    /\ mode = [p \in ClusterProcs |-> "cluster"]
    /\ task = [p \in ClusterProcs |-> NoTask]
    /\ result = [p \in ClusterProcs |-> [kind |-> "none", val |-> "none"]]
    /\ state = [p \in ClusterProcs |-> "none"]
    /\ logged = [p \in ClusterProcs |-> {}]
    /\ hist = [p \in ClusterProcs |-> NoHist]
    /\ subject \in [version : StatusVersions, exists : BOOLEAN]

\* pg_ctl status exits with code, which Cluster::running decodes
RunningStatus(p) ==
    /\ pc[p] = "start"
    /\ \E code \in 0..MaxExitCode :
        /\ task' = Set(task, p, [kind |-> "status", val |-> code])
        /\ result' = Set(result, p,
                         [kind |-> "running",
                          val |-> Cluster_running_decode(subject.version, code, subject.exists)])
    /\ pc' = Set(pc, p, "done")
    /\ UNCHANGED <<os, flock, handle, mode, subject, state, logged, hist>>

NextRunning == \E p \in P : RunningStatus(p)

SpecRunning == InitRunning /\ [][NextRunning]_vars

--------------------------------------------------------------------------
(* Strategy::select on its own: chains of single runtimes, of delegated    *)
(* strategies and of chains, asked for a runtime under a constraint        *)

SelectLeaves ==
    {Strategy_Single(Runtime(1, Post10(14, 2))),
     Strategy_Delegated(<<Runtime(2, Pre10(9, 6, 1)), Runtime(3, Post10(14, 5)),
                          Runtime(4, Post10(14, 2))>>)}

ChainsOf(strategies) ==
    {Strategy_Chain(chain) : chain \in UNION {[1..n -> strategies] : n \in 0..MaxChain}}

SelectStrategies == ChainsOf(SelectLeaves \cup ChainsOf(SelectLeaves))

SelectConstraints ==
    {Constraint_Version(Post10m(14)), Constraint_Version(Pre10mm(9, 6)),
     Constraint_Version(Post10mm(15, 1)), Constraint_BinDir({3, 4}),
     Constraint_Not(Constraint_Version(Post10m(14))), Constraint_Anything}

InitSelect ==
    /\ os \in {"linux", "bsd"}
    /\ flock = [p \in ClusterProcs |-> "none"]
    /\ handle = [p \in ClusterProcs |-> "UnlockedFile"]
    /\ pc = [p \in ClusterProcs |-> "start"]
    /\ mode = [p \in ClusterProcs |-> "select"]
    /\ task = [p \in ClusterProcs |-> NoTask]
    /\ result = [p \in ClusterProcs |-> [kind |-> "none", val |-> NoRuntime]]
    /\ state = [p \in ClusterProcs |-> "none"]
    /\ logged = [p \in ClusterProcs |-> {}]
    /\ hist \in [ClusterProcs -> [strategy : SelectStrategies, constraint : SelectConstraints]]
    /\ subject = ClusterAbsent

\* strategy.select(&constraint)
Select(p) ==
    /\ pc[p] = "start"
    /\ result' = Set(result, p, [kind |-> "select",
                                 val |-> Strategy_select(hist[p].strategy, hist[p].constraint)])
    /\ pc' = Set(pc, p, "done")
    /\ UNCHANGED <<os, flock, handle, mode, subject, task, state, logged, hist>>

NextSelect == \E p \in P : Select(p)

SpecSelect == InitSelect /\ [][NextSelect]_vars

--------------------------------------------------------------------------
(* Strategy::runtimes on its own: single, delegated and chained strategies *)
(* in which a version occurs more than once                                *)

RuntimesLeaves ==
    SelectLeaves
        \cup {Strategy_Delegated(<<Runtime(6, Post10(14, 5)), Runtime(7, Pre10(9, 6, 1)),
                                   Runtime(8, Post10(14, 5))>>)}

RuntimesStrategies == RuntimesLeaves \cup ChainsOf(RuntimesLeaves \cup ChainsOf(RuntimesLeaves))

InitRuntimes ==
    /\ os = "linux"
    /\ flock = [p \in ClusterProcs |-> "none"]
    /\ handle = [p \in ClusterProcs |-> "UnlockedFile"]
    /\ pc = [p \in ClusterProcs |-> "start"]
    /\ mode = [p \in ClusterProcs |-> "runtimes"]
    /\ task = [p \in ClusterProcs |-> NoTask]
    /\ result = [p \in ClusterProcs |-> [kind |-> "none", val |-> <<>>]]
    /\ state = [p \in ClusterProcs |-> "none"]
    /\ logged = [p \in ClusterProcs |-> {}]
    /\ hist \in [ClusterProcs -> [strategy : RuntimesStrategies]]
    /\ subject = ClusterAbsent

\* strategy.runtimes().collect()
Runtimes(p) ==
    /\ pc[p] = "start"
    /\ result' = Set(result, p, [kind |-> "runtimes",
                                 val |-> Strategy_runtimes(hist[p].strategy)])
    /\ pc' = Set(pc, p, "done")
    /\ UNCHANGED <<os, flock, handle, mode, subject, task, state, logged, hist>>

NextRuntimes == \E p \in P : Runtimes(p)

SpecRuntimes == InitRuntimes /\ [][NextRuntimes]_vars

--------------------------------------------------------------------------
(* runtime/constraint.rs: the operators !, | and & on constraints, with    *)
(* their simplifications, and Constraint::any and Constraint::all          *)

\* impl Not for Constraint
Constraint_not(c) ==
    CASE c.tag = "Anything" -> Constraint_Nothing
      [] c.tag = "Nothing" -> Constraint_Anything
      [] c.tag = "Not" -> c.c
      [] OTHER -> Constraint_Not(c)

\* impl BitOr for Constraint; the arms are tried in the order written
Constraint_bitor(a, b) ==
    IF a.tag = "Anything" \/ b.tag = "Anything" THEN Constraint_Anything
    ELSE IF a.tag = "Nothing" THEN b
    ELSE IF b.tag = "Nothing" THEN a
    ELSE Constraint_Either(a, b)

\* a slip: Nothing taken for the identity of &
Constraint_bitand_NothingIdentity(a, b) ==
    IF a.tag = "Nothing" THEN b
    ELSE IF b.tag = "Nothing" THEN a
    ELSE IF a.tag = "Anything" \/ b.tag = "Anything" THEN Constraint_Anything
    ELSE Constraint_Both(a, b)

\* impl BitAnd for Constraint
Constraint_bitand(a, b) ==
    IF a.tag = "Anything" THEN b
    ELSE IF b.tag = "Anything" THEN a
    ELSE IF a.tag = "Nothing" \/ b.tag = "Nothing" THEN Constraint_Nothing
    ELSE Constraint_Both(a, b)

\* Constraint::any: reduce(|a, b| a | b), folded from the left, Nothing for
\* no element
RECURSIVE ReduceBitOr(_, _)
ReduceBitOr(acc, cs) ==
    IF cs = <<>> THEN acc ELSE ReduceBitOr(Constraint_bitor(acc, Head(cs)), Tail(cs))

Constraint_any(cs) ==
    IF cs = <<>> THEN Constraint_Nothing ELSE ReduceBitOr(Head(cs), Tail(cs))

\* Constraint::all: reduce(|a, b| a & b), Anything for no element
RECURSIVE ReduceBitAnd(_, _)
ReduceBitAnd(acc, cs) ==
    IF cs = <<>> THEN acc ELSE ReduceBitAnd(Constraint_bitand(acc, Head(cs)), Tail(cs))

Constraint_all(cs) ==
    IF cs = <<>> THEN Constraint_Anything ELSE ReduceBitAnd(Head(cs), Tail(cs))

ConstraintAtoms ==
    {Constraint_BinDir({1, 2}), Constraint_Version(Post10m(14)),
     Constraint_Version(Pre10mm(9, 6)), Constraint_Anything, Constraint_Nothing}

ConstraintLists == UNION {[1..n -> ConstraintAtoms] : n \in 0..MaxList}

ConstraintRuntimes ==
    {Runtime(bindir, v) : bindir \in 1..3, v \in {Post10(14, 2), Pre10(9, 6, 1)}}

InitConstraint ==
    /\ os = "linux"
    /\ flock = [p \in ClusterProcs |-> "none"]
    /\ handle = [p \in ClusterProcs |-> "UnlockedFile"]
    /\ pc = [p \in ClusterProcs |-> "start"]
    /\ mode = [p \in ClusterProcs |-> "constraint"]
    /\ task \in [ClusterProcs -> [kind : {"constraint"}, val : ConstraintAtoms]]
    /\ result = [p \in ClusterProcs |-> [kind |-> "none", val |-> "none"]]
    /\ state = [p \in ClusterProcs |-> "none"]
    /\ logged = [p \in ClusterProcs |-> {}]
    /\ hist = [p \in ClusterProcs |-> [op |-> "none", args |-> <<>>, ops |-> 0]]
    /\ subject = ClusterAbsent

\* the constraint held becomes value, got by op from args
Applied(p, op, args, value) ==
    /\ hist[p].ops < MaxOps
    /\ task' = Set(task, p, [kind |-> "constraint", val |-> value])
    /\ hist' = Set(hist, p, [op |-> op, args |-> args, ops |-> hist[p].ops + 1])
    /\ UNCHANGED <<os, flock, handle, pc, mode, subject, result, state, logged>>

\* !constraint
ApplyNot(p) ==
    Applied(p, "not", <<task[p].val>>, Constraint_not(task[p].val))

\* constraint | other and other | constraint
ApplyBitOr(p) ==
    \E other \in ConstraintAtoms :
        \E args \in {<<task[p].val, other>>, <<other, task[p].val>>} :
            Applied(p, "bitor", args, Constraint_bitor(args[1], args[2]))

\* constraint & other and other & constraint
ApplyBitAnd(p) ==
    \E other \in ConstraintAtoms :
        \E args \in {<<task[p].val, other>>, <<other, task[p].val>>} :
            Applied(p, "bitand", args, Constraint_bitand(args[1], args[2]))

\* Constraint::any(constraints)
ApplyAny(p) ==
    \E cs \in ConstraintLists : Applied(p, "any", cs, Constraint_any(cs))

\* Constraint::all(constraints)
ApplyAll(p) ==
    \E cs \in ConstraintLists : Applied(p, "all", cs, Constraint_all(cs))

NextConstraint ==
    \E p \in P :
        \/ ApplyNot(p)
        \/ ApplyBitOr(p)
        \/ ApplyBitAnd(p)
        \/ ApplyAny(p)
        \/ ApplyAll(p)

SpecConstraint == InitConstraint /\ [][NextConstraint]_vars

--------------------------------------------------------------------------
(* version/current.rs: Version::from_str and Display.  A text is a         *)
(* sequence of characters; x stands for any letter.                        *)

Digits == <<"0", "1", "2", "3", "4", "5", "6", "7", "8", "9">>
IsDigit(ch) == \E k \in DOMAIN Digits : Digits[k] = ch
DigitValue(ch) == (CHOOSE k \in DOMAIN Digits : Digits[k] = ch) - 1

\* \w and \b of the regex
IsWord(ch) == IsDigit(ch) \/ ch = "x"
BoundaryBefore(s, i) == IsWord(s[i]) /\ (i = 1 \/ ~IsWord(s[i - 1]))
BoundaryAfter(s, e) == IsWord(s[e]) /\ (e = Len(s) \/ ~IsWord(s[e + 1]))

\* \d+ from position i, greedy: where the run of digits ends, i - 1 for none
RunEnd(s, i) ==
    IF i > Len(s) \/ ~IsDigit(s[i]) THEN i - 1
    ELSE CHOOSE e \in i..Len(s) :
            /\ \A k \in i..e : IsDigit(s[k])
            /\ e = Len(s) \/ ~IsDigit(s[e + 1])

\* \b (\d+) [.] (\d+) (?: [.] (\d+) )? \b tried at position i: the captures,
\* the third one tried first and given up when the match cannot end after it
NoCaptures == [found |-> FALSE, a |-> <<>>, b |-> <<>>, third |-> FALSE, c |-> <<>>]
CapturesAt(s, i) ==
    LET ea == RunEnd(s, i)
        eb == RunEnd(s, ea + 2)
        ec == RunEnd(s, eb + 2)
        dotAfter(e) == e + 1 <= Len(s) /\ s[e + 1] = "."
    IN  IF ~(BoundaryBefore(s, i) /\ ea >= i /\ dotAfter(ea) /\ eb >= ea + 2)
        THEN NoCaptures
        ELSE IF dotAfter(eb) /\ ec >= eb + 2 /\ BoundaryAfter(s, ec)
        THEN [found |-> TRUE, a |-> SubSeq(s, i, ea), b |-> SubSeq(s, ea + 2, eb),
              third |-> TRUE, c |-> SubSeq(s, eb + 2, ec)]
        ELSE IF BoundaryAfter(s, eb)
        THEN [found |-> TRUE, a |-> SubSeq(s, i, ea), b |-> SubSeq(s, ea + 2, eb),
              third |-> FALSE, c |-> <<>>]
        ELSE NoCaptures

\* RE.captures(s): the leftmost match
Captures(s) ==
    IF \E i \in DOMAIN s : CapturesAt(s, i).found
    THEN CapturesAt(s, CHOOSE i \in DOMAIN s :
                            /\ CapturesAt(s, i).found
                            /\ \A j \in 1..(i - 1) : ~CapturesAt(s, j).found)
    ELSE NoCaptures

\* str::parse::<u32>() of digits: the number, or an error when it does not fit
Overflow == MaxComponent + 1
RECURSIVE ParseU32From(_, _)
ParseU32From(acc, digits) ==
    IF digits = <<>> THEN acc
    ELSE IF acc * 10 + DigitValue(Head(digits)) > MaxComponent THEN Overflow
    ELSE ParseU32From(acc * 10 + DigitValue(Head(digits)), Tail(digits))

ParseU32(digits) == ParseU32From(0, digits)

ParseOk(version) == [err |-> "none", version |-> version]
ParseErr(err) == [err |-> err, version |-> NoVersion]

\* a slip: three components taken whatever the first one is
Version_from_str_AnyMajor(s) ==
    LET caps == Captures(s)
        a == ParseU32(caps.a)
        b == ParseU32(caps.b)
        c == ParseU32(caps.c)
    IN  IF ~caps.found THEN ParseErr("NotFound")
        ELSE IF a = Overflow \/ b = Overflow THEN ParseErr("BadlyFormed")
        ELSE IF ~caps.third
        THEN IF a >= 10 THEN ParseOk(Post10(a, b)) ELSE ParseErr("BadlyFormed")
        ELSE IF c = Overflow THEN ParseErr("BadlyFormed")
        ELSE ParseOk(Pre10(a, b, c))

\* impl FromStr for Version
Version_from_str(s) ==
    LET caps == Captures(s)
        a == ParseU32(caps.a)
        b == ParseU32(caps.b)
        c == ParseU32(caps.c)
    IN  IF ~caps.found THEN ParseErr("NotFound")
        ELSE IF a = Overflow \/ b = Overflow THEN ParseErr("BadlyFormed")
        ELSE IF ~caps.third
        THEN IF a >= 10 THEN ParseOk(Post10(a, b)) ELSE ParseErr("BadlyFormed")
        ELSE IF a >= 10 THEN ParseErr("BadlyFormed")
        ELSE IF c = Overflow THEN ParseErr("BadlyFormed")
        ELSE ParseOk(Pre10(a, b, c))

\* format!("{n}") of a u32: its decimal digits
RECURSIVE Decimal(_)
Decimal(n) ==
    IF n < 10 THEN <<Digits[n + 1]>> ELSE Decimal(n \div 10) \o <<Digits[(n % 10) + 1]>>

\* impl Display for Version
Version_display(v) ==
    IF v.kind = "Pre10"
    THEN Decimal(v.a) \o <<".">> \o Decimal(v.b) \o <<".">> \o Decimal(v.c)
    ELSE Decimal(v.a) \o <<".">> \o Decimal(v.b)

TextChars == {"0", "1", "9", ".", "x"}
Texts == UNION {[1..n -> TextChars] : n \in 0..MaxText}

InitVersion ==
    /\ os = "linux"
    /\ flock = [p \in ClusterProcs |-> "none"]
    /\ handle = [p \in ClusterProcs |-> "UnlockedFile"]
    /\ pc = [p \in ClusterProcs |-> "start"]
    /\ mode = [p \in ClusterProcs |-> "version"]
    /\ task = [p \in ClusterProcs |-> [kind |-> "none", val |-> <<>>]]
    /\ result = [p \in ClusterProcs |-> [kind |-> "none", val |-> ParseErr("none")]]
    /\ state = [p \in ClusterProcs |-> "none"]
    /\ logged = [p \in ClusterProcs |-> {}]
    /\ hist = [p \in ClusterProcs |-> NoHist]
    /\ subject \in [text : Texts]

\* subject.text.parse::<Version>()
ParseVersion(p) ==
    /\ pc[p] = "start"
    /\ result' = Set(result, p, [kind |-> "parse", val |-> Version_from_str(subject.text)])
    /\ pc' = Set(pc, p, "parsed")
    /\ UNCHANGED <<os, flock, handle, mode, subject, task, state, logged, hist>>

\* format!("{}", version) of the version parsed
DisplayVersion(p) ==
    /\ pc[p] = "parsed"
    /\ result[p].val.err = "none"
    /\ task' = Set(task, p, [kind |-> "display", val |-> Version_display(result[p].val.version)])
    /\ pc' = Set(pc, p, "displayed")
    /\ UNCHANGED <<os, flock, handle, mode, subject, result, state, logged, hist>>

NextVersion ==
    \E p \in P :
        \/ ParseVersion(p)
        \/ DisplayVersion(p)

SpecVersion == InitVersion /\ [][NextVersion]_vars

--------------------------------------------------------------------------
(* Cluster::createdb and Cluster::dropdb: one statement sent over a        *)
(* connection to the postgres database of a running cluster.  The server   *)
(* is the set of its databases; a statement can fail for a reason of the   *)
(* server's own (fault), and the connection can fail.                      *)

DatabaseNames == {"postgres", "a", "b", "c"}
DATABASE_POSTGRES == "postgres"
Faults == {"none", "connect", "sql"}

\* what the server answers to CREATE DATABASE name and DROP DATABASE name: a
\* SQLSTATE and its databases afterwards
Server_execute(dbs, statement, name, fault) ==
    IF fault = "sql" THEN [sqlstate |-> "OTHER", dbs |-> dbs]
    ELSE IF statement = "CREATE DATABASE"
    THEN IF name \in dbs THEN [sqlstate |-> "DUPLICATE_DATABASE", dbs |-> dbs]
         ELSE [sqlstate |-> "none", dbs |-> dbs \cup {name}]
    ELSE IF name \notin dbs THEN [sqlstate |-> "UNDEFINED_DATABASE", dbs |-> dbs]
    ELSE IF name = DATABASE_POSTGRES THEN [sqlstate |-> "OBJECT_IN_USE", dbs |-> dbs]
    ELSE [sqlstate |-> "none", dbs |-> dbs \ {name}]

\* the match on the outcome of execute, with the SQLSTATE that means Unmodified
MatchExecute(answer, unmodified) ==
    IF answer.sqlstate = unmodified THEN "Unmodified"
    ELSE IF answer.sqlstate # "none" THEN "Err"
    ELSE "Modified"

\* a slip: createdb looking for the SQLSTATE of a database that is not there
Cluster_createdb_WrongState(dbs, name, fault) ==
    IF fault = "connect" THEN [res |-> "Err", sqlstate |-> "none", dbs |-> dbs]
    ELSE LET answer == Server_execute(dbs, "CREATE DATABASE", name, fault)
         IN  [res |-> MatchExecute(answer, "UNDEFINED_DATABASE"),
              sqlstate |-> answer.sqlstate, dbs |-> answer.dbs]

Cluster_createdb(dbs, name, fault) ==
    IF fault = "connect" THEN [res |-> "Err", sqlstate |-> "none", dbs |-> dbs]
    ELSE LET answer == Server_execute(dbs, "CREATE DATABASE", name, fault)
         IN  [res |-> MatchExecute(answer, "DUPLICATE_DATABASE"),
              sqlstate |-> answer.sqlstate, dbs |-> answer.dbs]

Cluster_dropdb(dbs, name, fault) ==
    IF fault = "connect" THEN [res |-> "Err", sqlstate |-> "none", dbs |-> dbs]
    ELSE LET answer == Server_execute(dbs, "DROP DATABASE", name, fault)
         IN  [res |-> MatchExecute(answer, "UNDEFINED_DATABASE"),
              sqlstate |-> answer.sqlstate, dbs |-> answer.dbs]

NoCall == [op |-> "none", name |-> "none", fault |-> "none", sqlstate |-> "none",
           before |-> {}]

InitDatabases ==
    /\ os = "linux"
    /\ flock = [p \in ClusterProcs |-> "none"]
    /\ handle = [p \in ClusterProcs |-> "UnlockedFile"]
    /\ pc = [p \in ClusterProcs |-> "start"]
    /\ mode = [p \in ClusterProcs |-> "databases"]
    /\ task = [p \in ClusterProcs |-> NoTask]
    /\ result = [p \in ClusterProcs |-> [kind |-> "none", val |-> "none"]]
    /\ state = [p \in ClusterProcs |-> "none"]
    /\ logged = [p \in ClusterProcs |-> {}]
    /\ hist = [p \in ClusterProcs |-> NoCall]
    /\ subject = [databases |-> {DATABASE_POSTGRES}]

DatabaseCalled(p, op, name, fault, r) ==
    /\ subject' = [databases |-> r.dbs]
    /\ result' = Set(result, p, [kind |-> op, val |-> r.res])
    /\ hist' = Set(hist, p, [op |-> op, name |-> name, fault |-> fault,
                             sqlstate |-> r.sqlstate, before |-> subject.databases])
    /\ UNCHANGED <<os, flock, handle, pc, mode, task, state, logged>>

CreateDb(p) ==
    \E name \in DatabaseNames, fault \in Faults :
        DatabaseCalled(p, "createdb", name, fault,
                       Cluster_createdb(subject.databases, name, fault))

DropDb(p) ==
    \E name \in DatabaseNames, fault \in Faults :
        DatabaseCalled(p, "dropdb", name, fault,
                       Cluster_dropdb(subject.databases, name, fault))

NextDatabases ==
    \E p \in P :
        \/ CreateDb(p)
        \/ DropDb(p)

SpecDatabases == InitDatabases /\ [][NextDatabases]_vars

--------------------------------------------------------------------------
(* pgdo-cli command/restore.rs, restore: the latest base backup is copied  *)
(* into the restore directory, the server is started once to recover and   *)
(* shut down, and once more to have archiving switched off.  The restore   *)
(* directory is a cluster with its mode, its recovery.signal and whether   *)
(* the server that runs is recovering.                                     *)

RestoreStrategies ==
    {Strategy_Single(Runtime(1, Post10(14, 2))), Strategy_Single(Runtime(1, Post10(15, 0)))}

\* the PG_VERSION of the latest base backup data.N, when one is found
RestoreBackups == {Post10m(14), Post10m(15)}

RestoreDirs ==
    [datadir : {FALSE}, pgversion : {NoVersion}, running : {FALSE},
     dir : {"absent", "empty", "not empty"}, perms : {"0755", "0750", "0700"},
     signal : {FALSE}, recovery : {FALSE}]

InitRestore ==
    /\ os = "linux"
    /\ flock = [p \in ClusterProcs |-> "none"]
    /\ handle = [p \in ClusterProcs |-> "UnlockedFile"]
    /\ pc = [p \in ClusterProcs |-> "start"]
    /\ mode = [p \in ClusterProcs |-> "restore"]
    /\ task = [p \in ClusterProcs |-> NoTask]
    /\ result = [p \in ClusterProcs |-> [kind |-> "none", val |-> "none"]]
    /\ state = [p \in ClusterProcs |-> "none"]
    /\ logged = [p \in ClusterProcs |-> {}]
    /\ hist \in [ClusterProcs -> [strategy : RestoreStrategies, backup : RestoreBackups,
                                   found : BOOLEAN, starts : {0}]]
    /\ subject \in RestoreDirs

\* restore goes on to the step next, or returns the error
RestoreGoes(p, next, err) ==
    /\ pc' = Set(pc, p, IF err = "none" THEN next ELSE "failed")
    /\ result' = Set(result, p, IF err = "none" THEN result[p]
                                ELSE [kind |-> "restore", val |-> err])

\* a slip: the directory made and its mode set before anything is looked at
RestorePrepare_ChmodFirst(p) ==
    /\ pc[p] = "start"
    /\ subject' = [subject EXCEPT !.dir = IF @ = "absent" THEN "empty" ELSE @,
                                  !.perms = "0700"]
    /\ IF ~hist[p].found
       THEN RestoreGoes(p, "copy", "No base backup found")
       ELSE IF subject.dir = "not empty"
       THEN RestoreGoes(p, "copy", "Restore directory is not empty")
       ELSE RestoreGoes(p, "copy", "none")
    /\ UNCHANGED <<os, flock, handle, mode, task, state, logged, hist>>

\* the latest data.N looked for in backup_dir; then create_dir_all(restore_dir),
\* the check that it is empty, mode 0o700
RestorePrepare(p) ==
    /\ pc[p] = "start"
    /\ \E fails \in BOOLEAN :
        IF ~hist[p].found
        THEN RestoreGoes(p, "copy", "No base backup found") /\ UNCHANGED subject
        ELSE IF fails
        THEN RestoreGoes(p, "copy", "IoError") /\ UNCHANGED subject
        ELSE IF subject.dir = "not empty"
        THEN RestoreGoes(p, "copy", "Restore directory is not empty") /\ UNCHANGED subject
        ELSE /\ RestoreGoes(p, "copy", "none")
             /\ subject' = [subject EXCEPT !.dir = "empty", !.perms = "0700"]
    /\ UNCHANGED <<os, flock, handle, mode, task, state, logged, hist>>

\* the base backup copied into place, the WAL of the backup removed
RestoreCopy(p) ==
    /\ pc[p] = "copy"
    /\ \E fails \in BOOLEAN :
        /\ RestoreGoes(p, "signal", IF fails THEN "FileCopyError" ELSE "none")
        /\ subject' = IF fails THEN [subject EXCEPT !.dir = "not empty"]
                      ELSE [subject EXCEPT !.dir = "not empty", !.datadir = TRUE,
                                           !.pgversion = hist[p].backup]
    /\ UNCHANGED <<os, flock, handle, mode, task, state, logged, hist>>

\* std::fs::write(restore_dir.join("recovery.signal"), "")
RestoreSignal(p) ==
    /\ pc[p] = "signal"
    /\ \E fails \in BOOLEAN :
        /\ RestoreGoes(p, "recover", IF fails THEN "IoError" ELSE "none")
        /\ subject' = [subject EXCEPT !.signal = ~fails]
    /\ UNCHANGED <<os, flock, handle, mode, task, state, logged, hist>>

\* the cluster after Cluster::start: a server that came up is recovering when
\* recovery.signal is there
Started(before, after) ==
    [after EXCEPT !.recovery = IF after.running /\ ~before.running THEN before.signal
                               ELSE before.recovery]

\* the start for recovery; an Unmodified start is an error
RestoreRecoveryStart(p) ==
    /\ pc[p] = "recover"
    /\ \E env \in CmdEnv :
        LET r == Cluster_start(subject, hist[p].strategy, env)
        IN  /\ RestoreGoes(p, "wait",
                           CASE r.res = "Modified" -> "none"
                             [] r.res = "Unmodified" -> "Restored cluster is already running"
                             [] OTHER -> r.res)
            /\ subject' = Started(subject, r.c)
    /\ hist' = Set(hist, p, [hist[p] EXCEPT !.starts = 1])
    /\ UNCHANGED <<os, flock, handle, mode, task, state, logged>>

\* a slip: recovery not waited for
RestoreWait_NoWait(p) ==
    /\ pc[p] = "wait"
    /\ RestoreGoes(p, "unsignal", "none")
    /\ UNCHANGED <<os, flock, handle, mode, subject, task, state, logged, hist>>

\* while cluster.running()? { sleep }: one turn of the loop
RestoreWait(p) ==
    /\ pc[p] = "wait"
    /\ LET running == Cluster_running(subject, hist[p].strategy)
       IN  RestoreGoes(p, IF running = "true" THEN "wait" ELSE "unsignal",
                       IF running \in {"true", "false"} THEN "none" ELSE running)
    /\ UNCHANGED <<os, flock, handle, mode, subject, task, state, logged, hist>>

\* std::fs::remove_file(restore_dir.join("recovery.signal"))
RestoreUnsignal(p) ==
    /\ pc[p] = "unsignal"
    /\ \E fails \in BOOLEAN :
        /\ RestoreGoes(p, "start again", IF fails \/ ~subject.signal THEN "IoError" ELSE "none")
        /\ subject' = [subject EXCEPT !.signal = subject.signal /\ fails]
    /\ UNCHANGED <<os, flock, handle, mode, task, state, logged, hist>>

\* the start for switching archiving off; what it returns is not looked at
RestoreSecondStart(p) ==
    /\ pc[p] = "start again"
    /\ \E env \in CmdEnv :
        LET r == Cluster_start(subject, hist[p].strategy, env)
        IN  /\ RestoreGoes(p, "reset", IF r.res \in {"Modified", "Unmodified"} THEN "none"
                                       ELSE r.res)
            /\ subject' = Started(subject, r.c)
    /\ hist' = Set(hist, p, [hist[p] EXCEPT !.starts = 2])
    /\ UNCHANGED <<os, flock, handle, mode, task, state, logged>>

\* archive_mode, archive_command and archive_library reset over a connection
RestoreReset(p) ==
    /\ pc[p] = "reset"
    /\ \E fails \in BOOLEAN :
        RestoreGoes(p, "stop", IF fails \/ ~subject.running \/ subject.recovery
                               THEN "DatabaseError" ELSE "none")
    /\ UNCHANGED <<os, flock, handle, mode, subject, task, state, logged, hist>>

\* cluster.stop()?
RestoreStop(p) ==
    /\ pc[p] = "stop"
    /\ \E env \in CmdEnv :
        LET r == Cluster_stop(subject, hist[p].strategy, env)
        IN  /\ RestoreGoes(p, "superusers", IF r.res \in {"Modified", "Unmodified"} THEN "none"
                                            ELSE r.res)
            /\ subject' = [r.c EXCEPT !.recovery = r.c.running /\ subject.recovery]
    /\ UNCHANGED <<os, flock, handle, mode, task, state, logged, hist>>

\* determine_superuser_role_names: postgres --single, which does not run on
\* the data directory of a running server and then names no superuser
RestoreSuperusers(p) ==
    /\ pc[p] = "superusers"
    /\ \E found \in BOOLEAN :
        IF found /\ ~subject.running
        THEN /\ pc' = Set(pc, p, "done")
             /\ result' = Set(result, p, [kind |-> "restore", val |-> "Ok"])
        ELSE RestoreGoes(p, "done", "CommandError")
    /\ UNCHANGED <<os, flock, handle, mode, subject, task, state, logged, hist>>

\* recovery reaches its target and the server shuts down
\* (recovery_target_action = shutdown), leaving recovery.signal in place
RecoveryEnds(p) ==
    /\ subject.running /\ subject.recovery
    /\ subject' = [subject EXCEPT !.running = FALSE, !.recovery = FALSE]
    /\ UNCHANGED <<os, flock, handle, pc, mode, task, result, state, logged, hist>>

NextRestore ==
    \E p \in P :
        \/ RestorePrepare(p)
        \/ RestoreCopy(p)
        \/ RestoreSignal(p)
        \/ RestoreRecoveryStart(p)
        \/ RestoreWait(p)
        \/ RestoreUnsignal(p)
        \/ RestoreSecondStart(p)
        \/ RestoreReset(p)
        \/ RestoreStop(p)
        \/ RestoreSuperusers(p)
        \/ RecoveryEnds(p)

SpecRestore == InitRestore /\ [][NextRestore]_vars

--------------------------------------------------------------------------
(* pgdo-cli command/backup.rs, backup (and cluster/backup.rs of the        *)
(* library): the cluster is started if it exists, archiving is configured, *)
(* the cluster is restarted when the configuration asks for it, and the    *)
(* base backup is made.  The cluster is whether the server runs, whether   *)
(* another process holds the lock, and the four parameters; every stop,    *)
(* start and pg_basebackup is entered in calls with the lock held then.    *)

WalLevels == {"minimal", "replica", "logical", "unsupported"}
ArchiveModes == {"off", "on", "always", "unsupported"}
ArchiveLibraries == {"", "basic_archive", "unsupported"}
ArchiveCommands == {"", "(disabled)", "pgdo wal:archive", "cp %p /archive/%f", "unsupported"}

\* the archive_command the backup wants
archive_command == "pgdo wal:archive"

\* a slip: nothing is set before every parameter has been looked at
ConfigureArchiving_CheckFirst(cfg) ==
    LET walSet == cfg.wal_level \notin {"replica", "logical"}
        modeSet == cfg.archive_mode \notin {"on", "always"}
        cmdSet == cfg.archive_command \in {"", "(disabled)"}
    IN  IF cfg.wal_level = "unsupported"
        THEN [err |-> "WAL is not supported", restart |-> FALSE, cfg |-> cfg, log |-> {}]
        ELSE IF "unsupported" \in {cfg.archive_mode, cfg.archive_library, cfg.archive_command}
        THEN [err |-> "Archiving is not supported", restart |-> FALSE, cfg |-> cfg, log |-> {}]
        ELSE IF cfg.archive_library # ""
        THEN [err |-> "archive_library is already set", restart |-> FALSE, cfg |-> cfg,
              log |-> {}]
        ELSE IF cfg.archive_command \notin {"", "(disabled)", archive_command}
        THEN [err |-> "archive_command is already set", restart |-> FALSE, cfg |-> cfg,
              log |-> {}]
        ELSE [err |-> "none", restart |-> walSet \/ modeSet,
              cfg |-> [cfg EXCEPT !.wal_level = IF walSet THEN "replica" ELSE @,
                                  !.archive_mode = IF modeSet THEN "on" ELSE @,
                                  !.archive_command = archive_command],
              log |-> {IF walSet THEN "Setting wal_level" ELSE "none",
                       IF modeSet THEN "Setting archive_mode" ELSE "none",
                       IF cmdSet THEN "Setting archive_command" ELSE "none"} \ {"none"}]

\* a slip: a restart asked for whenever anything was set
ConfigureArchiving_RestartOnCommand(cfg) ==
    LET r == ConfigureArchiving_CheckFirst(cfg)
    IN  [r EXCEPT !.restart = r.err = "none" /\ r.cfg # cfg]

\* the checks and settings of the four parameters, in the order of the code:
\* the error met (or "none"), whether a restart is needed, the parameters
\* afterwards and the log::info! lines of the settings made; a setting made
\* before an error stays.  A parameter the server does not know (get gives
\* None) is "unsupported".
ConfigureArchiving(cfg) ==
    LET walSet == cfg.wal_level \notin {"replica", "logical"}
        c1 == IF walSet THEN [cfg EXCEPT !.wal_level = "replica"] ELSE cfg
        l1 == IF walSet THEN {"Setting wal_level"} ELSE {}
        modeSet == cfg.archive_mode \notin {"on", "always"}
        c2 == IF modeSet THEN [c1 EXCEPT !.archive_mode = "on"] ELSE c1
        l2 == IF modeSet THEN l1 \cup {"Setting archive_mode"} ELSE l1
        cmdSet == cfg.archive_command \in {"", "(disabled)"}
        c3 == IF cmdSet THEN [c2 EXCEPT !.archive_command = archive_command] ELSE c2
        l3 == IF cmdSet THEN l2 \cup {"Setting archive_command"} ELSE l2
        Answer(err, restart, c, log) == [err |-> err, restart |-> restart, cfg |-> c, log |-> log]
    IN  IF cfg.wal_level = "unsupported"
        THEN Answer("WAL is not supported", FALSE, cfg, {})
        ELSE IF cfg.archive_mode = "unsupported"
        THEN Answer("Archiving is not supported", walSet, c1, l1)
        ELSE IF cfg.archive_library = "unsupported"
        THEN Answer("Archiving is not supported", walSet \/ modeSet, c2, l2)
        ELSE IF cfg.archive_library # ""
        THEN Answer("archive_library is already set", walSet \/ modeSet, c2, l2)
        ELSE IF cfg.archive_command = "unsupported"
        THEN Answer("Archiving is not supported", walSet \/ modeSet, c2, l2)
        ELSE IF cfg.archive_command \notin {"", "(disabled)", archive_command}
        THEN Answer("archive_command is already set", walSet \/ modeSet, c2, l2)
        ELSE Answer("none", walSet \/ modeSet, c3, l3)

ArchivingClusters ==
    [running : BOOLEAN, inuse : BOOLEAN, wal_level : WalLevels, archive_mode : ArchiveModes,
     archive_library : ArchiveLibraries, archive_command : ArchiveCommands]

\* another process holds the lock only on a cluster that it keeps running
InitArchiving ==
    /\ os = "linux"
    /\ flock = [p \in ClusterProcs |-> "none"]
    /\ handle = [p \in ClusterProcs |-> "UnlockedFile"]
    /\ pc = [p \in ClusterProcs |-> "startup"]
    /\ mode = [p \in ClusterProcs |-> "backup"]
    /\ task = [p \in ClusterProcs |-> NoTask]
    /\ result = [p \in ClusterProcs |-> [kind |-> "none", val |-> "none"]]
    /\ state = [p \in ClusterProcs |-> "none"]
    /\ logged = [p \in ClusterProcs |-> {}]
    /\ hist = [p \in ClusterProcs |-> [calls |-> <<>>]]
    /\ subject \in {c \in ArchivingClusters : c.inuse => c.running}

\* a call on the cluster, entered with the lock the backup holds
Call(p, op) == [op |-> op, lock |-> flock[p]]

\* the backup returns: the lock is released when the resource is dropped
BackupReturns(p, kind, val) ==
    /\ pc' = Set(pc, p, "done")
    /\ result' = Set(result, p, [kind |-> kind, val |-> val])
    /\ flock' = Set(flock, p, "none")
    /\ handle' = Set(handle, p, "UnlockedFile")

\* do_cleanup: stop the cluster if this backup started it and holds the
\* exclusive resource; the calls it makes
do_cleanup(p) ==
    IF state[p] = "Modified" /\ handle[p] = "LockedFileExclusive"
    THEN <<Call(p, "stop")>> ELSE <<>>

\* startup_if_exists: the shared resource of a cluster in use that runs, or
\* the exclusive resource after start
BackupStartup(p) ==
    /\ pc[p] = "startup"
    /\ IF subject.inuse
       THEN /\ subject.running
            /\ flock' = Set(flock, p, "shared")
            /\ handle' = Set(handle, p, "LockedFileShared")
            /\ state' = Set(state, p, "Unmodified")
            /\ pc' = Set(pc, p, "configure")
            /\ UNCHANGED <<subject, hist, result>>
       ELSE \E ok \in BOOLEAN :
            IF ok
            THEN /\ flock' = Set(flock, p, "exclusive")
                 /\ handle' = Set(handle, p, "LockedFileExclusive")
                 /\ state' = Set(state, p, IF subject.running THEN "Unmodified" ELSE "Modified")
                 /\ subject' = [subject EXCEPT !.running = TRUE]
                 /\ hist' = Set(hist, p, [calls |->
                        IF subject.running THEN <<>>
                        ELSE <<[op |-> "start", lock |-> "exclusive"]>>])
                 /\ pc' = Set(pc, p, "configure")
                 /\ UNCHANGED result
            ELSE /\ BackupReturns(p, "Err", "DoesNotExist")
                 /\ UNCHANGED <<subject, hist, state>>
    /\ UNCHANGED <<os, mode, task, logged>>

\* the parameters checked and set under with_cleanup
BackupConfigure(p) ==
    /\ pc[p] = "configure"
    /\ LET r == ConfigureArchiving(subject)
           cleanup == do_cleanup(p)
       IN  /\ logged' = Set(logged, p, logged[p] \cup r.log)
           /\ IF r.err = "none"
              THEN /\ subject' = r.cfg
                   /\ task' = Set(task, p, [kind |-> IF r.restart THEN "needs_restart"
                                                     ELSE "no_restart", val |-> 0])
                   /\ pc' = Set(pc, p, "restart")
                   /\ UNCHANGED <<flock, handle, result, hist>>
              ELSE /\ subject' = [r.cfg EXCEPT !.running = (cleanup = <<>>)]
                   /\ hist' = Set(hist, p, [calls |-> hist[p].calls \o cleanup])
                   /\ BackupReturns(p, "Err", r.err)
                   /\ UNCHANGED task
    /\ UNCHANGED <<os, mode, state>>

\* a slip: the cluster restarted whichever resource is held
BackupRestart_AnyLock(p) ==
    /\ pc[p] = "restart"
    /\ IF task[p].kind = "needs_restart"
       THEN /\ hist' = Set(hist, p, [calls |->
                    hist[p].calls \o <<Call(p, "stop"), Call(p, "start")>>])
            /\ pc' = Set(pc, p, "basebackup")
            /\ UNCHANGED <<subject, flock, handle, result>>
       ELSE /\ pc' = Set(pc, p, "basebackup")
            /\ UNCHANGED <<subject, flock, handle, result, hist>>
    /\ UNCHANGED <<os, mode, task, state, logged>>

\* match (needs_restart, resource): fail on the shared resource; stop, then
\* start, on the exclusive one, with do_cleanup when either fails.  A stop
\* that fails leaves the server running, a start that fails leaves it stopped.
BackupRestart(p) ==
    /\ pc[p] = "restart"
    /\ IF task[p].kind # "needs_restart"
       THEN /\ pc' = Set(pc, p, "basebackup")
            /\ UNCHANGED <<subject, flock, handle, result, hist>>
       ELSE IF handle[p] = "LockedFileShared"
       THEN /\ BackupReturns(p, "Failure", "Please restart the cluster manually")
            /\ UNCHANGED <<subject, hist>>
       ELSE \E failed \in {"none", "stop", "start"} :
            LET made == IF failed = "stop" THEN <<Call(p, "stop")>>
                        ELSE <<Call(p, "stop"), Call(p, "start")>>
            IN  IF failed = "none"
                THEN /\ hist' = Set(hist, p, [calls |-> hist[p].calls \o made])
                     /\ pc' = Set(pc, p, "basebackup")
                     /\ UNCHANGED <<subject, flock, handle, result>>
                ELSE /\ hist' = Set(hist, p, [calls |-> hist[p].calls \o made \o do_cleanup(p)])
                     /\ subject' = [subject EXCEPT !.running =
                            IF failed = "start" THEN FALSE ELSE do_cleanup(p) = <<>>]
                     /\ BackupReturns(p, "Err", "ClusterError")
    /\ UNCHANGED <<os, mode, task, state, logged>>

\* a slip: no cleanup after the base backup
BackupBaseBackup_NoCleanup(p) ==
    /\ pc[p] = "basebackup"
    /\ hist' = Set(hist, p, [calls |-> hist[p].calls \o <<Call(p, "pg_basebackup")>>])
    /\ \E ok \in BOOLEAN :
        BackupReturns(p, IF ok THEN "Success" ELSE "Failure", "pg_basebackup")
    /\ UNCHANGED <<os, mode, subject, task, state, logged>>

\* pg_basebackup under with_finally(do_cleanup, ..), then the resource released
BackupBaseBackup(p) ==
    /\ pc[p] = "basebackup"
    /\ LET cleanup == do_cleanup(p)
       IN  /\ hist' = Set(hist, p, [calls |->
                    hist[p].calls \o <<Call(p, "pg_basebackup")>> \o cleanup])
           /\ subject' = [subject EXCEPT !.running = (cleanup = <<>>)]
    /\ \E ok \in BOOLEAN :
        BackupReturns(p, IF ok THEN "Success" ELSE "Failure", "pg_basebackup")
    /\ UNCHANGED <<os, mode, task, state, logged>>

NextArchiving ==
    \E p \in P :
        \/ BackupStartup(p)
        \/ BackupConfigure(p)
        \/ BackupRestart(p)
        \/ BackupBaseBackup(p)

SpecArchiving == InitArchiving /\ [][NextArchiving]_vars

--------------------------------------------------------------------------
(* wal:archive run by several processes at once for one target path, as    *)
(* when two clusters archive a segment of the same name into one           *)
(* destination.  Each run reads its source and the target, and then calls  *)
(* std::fs::write, which opens the target with create and truncate and     *)
(* writes the bytes from the start of the file.                            *)

Archivers == 1 .. NArchivers
WalSegments == {<<0>>, <<1>>, <<0, 1>>}

\* the bytes of a file after bytes were written at its start
Overlay(old, bytes) ==
    bytes \o (IF Len(old) > Len(bytes) THEN SubSeq(old, Len(bytes) + 1, Len(old)) ELSE <<>>)

InitWalRace ==
    /\ os = "linux"
    /\ flock = [p \in Archivers |-> "none"]
    /\ handle = [p \in Archivers |-> "UnlockedFile"]
    /\ pc = [p \in Archivers |-> "read"]
    /\ mode = [p \in Archivers |-> "wal:archive"]
    /\ task \in [Archivers -> [kind : {"source"}, val : WalSegments]]
    /\ result = [p \in Archivers |-> [kind |-> "none", val |-> "none"]]
    /\ state = [p \in Archivers |-> "none"]
    /\ logged = [p \in Archivers |-> {}]
    /\ hist = [p \in Archivers |-> [wrote |-> FALSE, over |-> Missing]]
    /\ subject \in [target : {Missing} \cup {File(bytes) : bytes \in WalSegments}]

\* read(&source), read(&target) and the match on both
ArchiveRead(p) ==
    /\ pc[p] = "read"
    /\ LET r == WalArchive(ReadOk(task[p].val), Read(subject.target, FALSE),
                           [ok |-> TRUE, file |-> File(task[p].val)])
       IN  IF r.written
           THEN /\ pc' = Set(pc, p, "open")
                /\ UNCHANGED result
           ELSE /\ pc' = Set(pc, p, "done")
                /\ result' = Set(result, p, [kind |-> "exit", val |-> r.exit])
    /\ UNCHANGED <<os, flock, handle, mode, subject, task, state, logged, hist>>

\* write(&target, wal_in): the file is created, or truncated when it is there
ArchiveOpen(p) ==
    /\ pc[p] = "open"
    /\ subject' = [target |-> File(<<>>)]
    /\ hist' = Set(hist, p, [wrote |-> TRUE, over |-> subject.target])
    /\ pc' = Set(pc, p, "write")
    /\ UNCHANGED <<os, flock, handle, mode, task, result, state, logged>>

\* write(&target, wal_in): the bytes written, then ExitCode::SUCCESS
ArchiveWrite(p) ==
    /\ pc[p] = "write"
    /\ subject' = [target |-> File(Overlay(subject.target.bytes, task[p].val))]
    /\ pc' = Set(pc, p, "done")
    /\ result' = Set(result, p, [kind |-> "exit", val |-> "SUCCESS"])
    /\ UNCHANGED <<os, flock, handle, mode, task, state, logged, hist>>

NextWalRace ==
    \E p \in P :
        \/ ArchiveRead(p)
        \/ ArchiveOpen(p)
        \/ ArchiveWrite(p)

SpecWalRace == InitWalRace /\ [][NextWalRace]_vars

--------------------------------------------------------------------------
(* pgdo-cli command/runtimes.rs, Runtimes::invoke: the runtimes of the     *)
(* strategy are collected and printed, and the strategy is then asked for  *)
(* its fallback; or, as Cluster does, for a runtime under a constraint     *)

ChoiceLeaves ==
    {Strategy_Single(Runtime(1, Post10(14, 2))),
     Strategy_Delegated(<<Runtime(6, Post10(14, 5)), Runtime(4, Post10(14, 2)),
                          Runtime(8, Post10(14, 5))>>)}

ChoiceStrategies == ChoiceLeaves \cup ChainsOf(ChoiceLeaves \cup ChainsOf(ChoiceLeaves))

ChoiceConstraints ==
    {Constraint_Version(Post10m(14)), Constraint_Version(Post10mm(15, 1)),
     Constraint_BinDir({4, 8}), Constraint_Anything}

InitChoice ==
    /\ os = "linux"
    /\ flock = [p \in ClusterProcs |-> "none"]
    /\ handle = [p \in ClusterProcs |-> "UnlockedFile"]
    /\ pc = [p \in ClusterProcs |-> "start"]
    /\ mode = [p \in ClusterProcs |-> "runtimes"]
    /\ task = [p \in ClusterProcs |-> NoTask]
    /\ result = [p \in ClusterProcs |-> [kind |-> "none", val |-> NoRuntime]]
    /\ state = [p \in ClusterProcs |-> "none"]
    /\ logged = [p \in ClusterProcs |-> {}]
    /\ hist \in [ClusterProcs -> [strategy : ChoiceStrategies, constraint : ChoiceConstraints]]
    /\ subject = ClusterAbsent

\* let mut runtimes: Vec<_> = strategy.runtimes().collect(), printed one a line
ChoiceList(p) ==
    /\ pc[p] = "start"
    /\ LET runtimes == Strategy_runtimes(hist[p].strategy)
       IN  logged' = Set(logged, p, {runtimes[i] : i \in DOMAIN runtimes})
    /\ pc' = Set(pc, p, "listed")
    /\ UNCHANGED <<os, flock, handle, mode, subject, task, result, state, hist>>

\* let fallback = strategy.fallback()
ChoiceFallback(p) ==
    /\ pc[p] = "listed"
    /\ result' = Set(result, p, [kind |-> "fallback",
                                 val |-> Strategy_fallback(hist[p].strategy)])
    /\ pc' = Set(pc, p, "done")
    /\ UNCHANGED <<os, flock, handle, mode, subject, task, state, logged, hist>>

\* strategy.select(&constraint)
ChoiceSelect(p) ==
    /\ pc[p] = "listed"
    /\ result' = Set(result, p, [kind |-> "select",
                                 val |-> Strategy_select(hist[p].strategy, hist[p].constraint)])
    /\ pc' = Set(pc, p, "done")
    /\ UNCHANGED <<os, flock, handle, mode, subject, task, state, logged, hist>>

NextChoice == \E p \in P : ChoiceList(p) \/ ChoiceFallback(p) \/ ChoiceSelect(p)

SpecChoice == InitChoice /\ [][NextChoice]_vars

--------------------------------------------------------------------------
(* Properties *)

\* C1: for any number of processes performing any sequence of lock
\* operations on one lock file, every lock value is of exactly one of the
\* three types, a process whose value is a LockedFileExclusive holds the
\* exclusive flock, and while some process holds the exclusive flock no other
\* process holds a shared or an exclusive one.
LockExclusion ==
    \A p \in P :
        /\ handle[p] \in HandleTypes
        /\ handle[p] = "LockedFileExclusive" => flock[p] = "exclusive"
        /\ flock[p] = "exclusive" => \A q \in P \ {p} : flock[q] = "none"

\* one process holds the lock exclusively, another waits for a shared lock,
\* and a third has been refused without blocking
LockExclusionWitness ==
    \E p, q \in P :
        /\ handle[p] = "LockedFileExclusive"
        /\ pc[q] = "blocked_shared"
        /\ \E r \in P \ {p, q} : handle[r] = "UnlockedFile" /\ pc[r] = "start"

\* C2: every subject.start, subject.stop and subject.destroy of run_and_stop,
\* run_and_stop_if_exists, run_and_destroy and Guard runs, from its call to its
\* return, while the calling process holds the exclusive lock and no other
\* process holds a shared or an exclusive lock.
MutationsUnderExclusiveLock ==
    \A p \in P :
        pc[p] \in {"starting", "stopping"} =>
            /\ flock[p] = "exclusive"
            /\ \A q \in P \ {p} : flock[q] = "none"

\* one process is stopping the subject while another, refused the exclusive
\* lock, is about to try for the shared one
MutationsUnderExclusiveLockWitness ==
    \E p, q \in P : pc[p] = "stopping" /\ pc[q] = "try_shared"

Returned(p) == state[p] # "none"
NobodyStopped == \A p \in P : hist[p].stop = "none"
BothReturnedSubjectStopped ==
    (\A p \in P : mode[p] = "run_and_stop" /\ pc[p] = "done" /\ result[p].kind = "Ok")
        => subject = Stopped

\* C6: when the action of run_and_stop, run_and_stop_if_exists or
\* run_and_destroy panics, shutdown still runs, once; with no lock held
\* elsewhere it stops (destroys) the subject; and the caller gets the panic
\* with the action's payload, also when stop or destroy failed.
PanicReraised ==
    \A p \in P :
        mode[p] \in RunModes /\ pc[p] = "done" /\ task[p].kind = "panic" =>
            /\ result[p] = Outcome("Panic", Val("action panic", task[p].val))
            /\ hist[p].finallyRuns = 1

PanicStillStops ==
    \A p \in P :
        mode[p] \in RunModes /\ task[p].kind = "panic" =>
            /\ (/\ pc[p] = "shutdown" /\ pc'[p] # "shutdown"
                /\ \A q \in P \ {p} : flock[q] = "none") => pc'[p] = "stopping"
            /\ (pc[p] = "stopping" /\ pc'[p] = "done" /\ hist'[p].stop # "Err") =>
                    /\ ~subject'.running
                    /\ Destroys(p) => ~subject'.exists

ActionErrorWins ==
    \A p \in P :
        (/\ mode[p] \in RunModes /\ pc[p] = "done"
         /\ task[p].kind = "err" /\ hist[p].stop = "Err") =>
            /\ result[p].val = Val("action error", task[p].val)
            /\ logged[p] # {}

\* C8: with_finally calls task and then finally, each exactly once, on every
\* path; it returns the task's value only if both succeeded; an error or panic
\* of the task is what it propagates whatever finally did; an error or panic
\* of finally is propagated only when the task succeeded.
FinallyContract ==
    \A p \in P :
        /\ hist[p].calls \in {<<>>, <<"task">>, <<"task", "finally">>}
        /\ pc[p] = "done" =>
            LET t == task[p]
                f == hist[p].fin
                r == result[p]
            IN  /\ hist[p].calls = <<"task", "finally">>
                /\ r.kind = "Ok" <=> (t.kind = "Ok" /\ f.kind = "Ok")
                /\ r.kind = "Ok" => r.val = t.val
                /\ t.kind # "Ok" => r = t
                /\ (t.kind = "Ok" /\ f.kind # "Ok") => r = f

\* both closures panicked and with_finally has resumed the task's panic
FinallyContractWitness ==
    \E p \in P :
        /\ pc[p] = "done" /\ task[p].kind = "Panic" /\ hist[p].fin.kind = "Panic"
        /\ result[p].kind = "Panic"

\* C9: run_and_stop_if_exists (startup_if_exists) fails with DoesNotExist when
\* it holds the exclusive lock and the subject has not been created; the
\* subject is then neither created nor started, the action never runs and the
\* lock is released.
DoesNotExistState ==
    \A p \in P :
        result[p] = Failed("DoesNotExist", p) =>
            /\ mode[p] = "run_and_stop_if_exists"
            /\ flock[p] = "none"
            /\ task[p] = NoTask /\ hist[p].actionRuns = 0
            /\ hist[p].start = "none"

DoesNotExistStep ==
    \A p \in P :
        (/\ mode[p] = "run_and_stop_if_exists"
         /\ pc[p] = "have_excl" /\ pc'[p] # "have_excl"
         /\ ~subject.exists) =>
            /\ result'[p] = Failed("DoesNotExist", p)
            /\ pc'[p] = "done"
            /\ subject' = subject
            /\ flock'[p] = "none"

DoesNotExistWhenAbsent == []DoesNotExistState /\ [][DoesNotExistStep]_vars

\* a run_and_stop_if_exists has failed with DoesNotExist while another process
\* is still waiting to start
DoesNotExistWhenAbsentWitness ==
    \E p, q \in P :
        /\ result[p] = Failed("DoesNotExist", p) /\ ~subject.exists
        /\ pc[q] = "start"

\* C10: after Guard::startup has succeeded the subject is running; when the
\* guard is dropped, normally or in a panic unwind, with no lock held
\* elsewhere, the subject is stopped (Stop) or destroyed (Destroy) and the lock
\* is released; an error of stop or destroy is logged, never propagated.
GuardState ==
    \A p \in P :
        mode[p] \in GuardModes =>
            /\ pc[p] = "action" => subject.running
            /\ (pc[p] = "done" /\ task[p] # NoTask) =>
                /\ flock[p] = "none"
                /\ result[p].kind = (IF task[p].kind = "panic" THEN "Panic" ELSE "Ok")
                /\ hist[p].stop = "Err" => logged[p] # {}

GuardDropStep ==
    \A p \in P :
        mode[p] \in GuardModes =>
            /\ (/\ pc[p] = "shutdown" /\ pc'[p] # "shutdown"
                /\ \A q \in P \ {p} : flock[q] = "none") => pc'[p] = "stopping"
            /\ (pc[p] = "stopping" /\ pc'[p] = "done" /\ hist'[p].stop # "Err") =>
                    /\ ~subject'.running
                    /\ subject'.exists <=> mode[p] = "guard_stop"

TryAnsweredLeft(p) ==
    /\ TryLockShared(p) \/ TryLockExclusive(p) \/ TryUnlock(p)
    /\ handle'[p] = handle[p]

FailedTryKeepsLockState ==
    [][\A p \in P : TryAnsweredLeft(p) => flock' = flock]_vars

\* C12 (as claimed): startup of coordinate.rs returns State::Modified only if
\* this process's subject.start started a subject that was not running, and
\* State::Unmodified when the subject was already running.
ModifiedOnlyIfStarted ==
    \A p \in P :
        /\ state[p] = "Modified" => hist[p].start = "Modified"
        /\ state[p] = "Unmodified" => hist[p].startRunning /\ hist[p].start = "none"

\* C13: one actor, an absent cluster and a runtime of a supported version:
\* create, create, start, start, stop, stop, destroy, destroy return Modified,
\* Unmodified, Modified, Unmodified, Modified, Unmodified, Modified,
\* Unmodified.
SupportedRuntime(s) ==
    LET v == Strategy_fallback(s).version
    IN  v.kind = "Post10" \/ (v.kind = "Pre10" /\ v.a = 9)

LifecycleStep ==
    \A p \in P :
        (SupportedRuntime(hist[p].strategy) /\ hist'[p].script <= Len(Script)
            /\ hist'[p].script = hist[p].script + 1) =>
            result'[p].val = (IF hist'[p].script % 2 = 1 THEN "Modified" ELSE "Unmodified")

LifecycleIdempotence == [][LifecycleStep]_vars

\* the eight calls have been made with a 9.1 runtime, whose pg_ctl status
\* answers 1 for a stopped cluster
LifecycleIdempotenceWitness ==
    \E p \in P :
        /\ hist[p].script = Len(Script)
        /\ Strategy_fallback(hist[p].strategy).version = Pre10(9, 1, 0)
        /\ subject = ClusterAbsent

\* C14: when a stop (or destroy) made by shutdown of cluster/resource.rs
\* returns Modified, no other process holds a shared lock on the lock file at
\* any time from the start of that stop to its return.
NoSharerWhileStopping ==
    \A p \in P : pc[p] = "stopping" => \A q \in P \ {p} : flock[q] # "shared"

NoSharerAtStopReturn ==
    \A p \in P :
        (pc[p] = "stopping" /\ hist'[p].stop = "Modified") =>
            \A q \in P \ {p} : flock[q] # "shared" /\ flock'[q] # "shared"

StopExcludesSharers == []NoSharerWhileStopping /\ [][NoSharerAtStopReturn]_vars

\* a stop has returned Modified while another process, which had held the
\* shared lock before, waits for it again
StopExcludesSharersWitness ==
    \E p, q \in P :
        /\ hist[p].stop = "Modified" /\ pc[p] = "held"
        /\ handle[p] = "LockedFileExclusive"
        /\ pc[q] = "blocked_shared"

\* C15: in startup of cluster/resource.rs, a process returns Unmodified, for
\* having seen the cluster running, only after the start of another process
\* has returned Modified; while a start that will return Modified is under
\* way no other process holds the lock, so none can look; and as long as
\* nobody has stopped the cluster, when A's start returns Modified no other
\* process has yet returned from startup at all.
ObservedAfterStart ==
    \A q \in P :
        state[q] = "Unmodified" => \E a \in P \ {q} : hist[a].start = "Modified"

NoObserverWhileStarting ==
    \A a \in P :
        pc[a] = "starting" =>
            \A q \in P \ {a} : flock[q] = "none" /\ pc[q] \notin {"check_running", "stopping"}

StartModifiedStep ==
    \A a \in P :
        (pc[a] = "starting" /\ hist'[a].start = "Modified") =>
            /\ ~subject.running /\ subject'.running
            /\ NobodyStopped => \A q \in P \ {a} : ~Returned(q)

Completed(p) == pc[p] = "done" /\ result[p].kind = "Ok"

BackupNames ==
    \A p \in P :
        Completed(p) =>
            /\ \A m \in hist[p].seen : result[p].val.n > m
            /\ \A q \in P \ {p} : Completed(q) => result[q].val.n # result[p].val.n
            /\ [n |-> result[p].val.n, owner |-> p] \in subject.entries

BackupDirectoriesKept ==
    \A e \in subject.entries : e \in subject'.entries

BackupNamesDistinctIncreasing == []BackupNames /\ [][BackupDirectoriesKept]_vars

\* C17: when wal:archive has run on (source, target) and exited with
\* success, a second run that meets no I/O error exits with success if the
\* source content is unchanged, and exits with failure if the source content
\* differs; either way the target keeps the bytes it held after the first
\* run, which are the bytes of the first run's source.  The first run exits
\* with success whenever the source is there, the target is not, and no I/O
\* error is met.
FirstArchives(run) ==
    (run.run /\ ~run.ioerr /\ run.source # Missing /\ run.before = Missing) =>
        run.exit = "SUCCESS" /\ run.after = run.source

SecondRun(first, second) ==
    (first.run /\ second.run /\ first.exit = "SUCCESS" /\ ~second.ioerr) =>
        /\ first.after = first.source
        /\ second.after = first.after
        /\ second.exit = IF second.source = first.source THEN "SUCCESS" ELSE "FAILURE"

WalCopyIdempotence ==
    /\ FirstArchives(hist.prev)
    /\ FirstArchives(hist.last)
    /\ SecondRun(hist.prev, hist.last)

WalCopyIdempotenceWitness ==
    /\ hist.prev.run /\ hist.prev.before = Missing /\ hist.prev.exit = "SUCCESS"
    /\ hist.last.run /\ ~hist.last.ioerr
    /\ hist.last.source # hist.prev.source /\ hist.last.source # Missing
    /\ hist.last.exit = "FAILURE" /\ subject.target = hist.prev.source

\* C18: on a cluster whose PG_VERSION exists, the runtime resolved is one of
\* the strategy's runtimes whose version is compatible with PG_VERSION; when
\* the strategy has no such runtime the use fails with RuntimeNotFound and no
\* executable has acted on the cluster; the fallback runtime is resolved only
\* when PG_VERSION is absent.
HasCompatible(strategy, pv) ==
    \E i \in DOMAIN Strategy_all(strategy) :
        PartialVersion_compatible(pv, Strategy_all(strategy)[i].version)

RuntimeResolved(p) ==
    LET pv == task[p].val.version
        rt == task[p].val.rt
        all == Strategy_all(hist[p].strategy)
    IN  /\ rt.used = "fallback" <=> pv = NoVersion
        /\ pv # NoVersion =>
            IF HasCompatible(hist[p].strategy, pv)
            THEN /\ rt.err = "none"
                 /\ \E i \in DOMAIN all : all[i] = rt.runtime
                 /\ PartialVersion_compatible(pv, rt.runtime.version)
            ELSE rt.err = "RuntimeNotFound"

NoRuntimeStep ==
    \A p \in P :
        (/\ Cluster_version(subject) # NoVersion
         /\ ~HasCompatible(hist[p].strategy, Cluster_version(subject))
         /\ result'[p] # result[p]) =>
            /\ subject' = subject
            /\ result'[p].kind # "create" => result'[p].val = "RuntimeNotFound"

RuntimeMatchesPgVersion ==
    /\ [](\A p \in P : task[p].kind = "runtime" => RuntimeResolved(p))
    /\ [][NoRuntimeStep]_vars

RuntimeMatchesPgVersionWitness ==
    \E p \in P :
        /\ task[p].kind = "runtime"
        /\ task[p].val.version = Post10m(14)
        /\ task[p].val.rt.runtime = Runtime(4, Post10(14, 5))
        /\ Strategy_fallback(hist[p].strategy) # task[p].val.rt.runtime

\* C19: Cluster::running answers true exactly for exit code 0, whatever the
\* version; it answers false exactly for exit 3 on post-10 and 9.4+, exit 4
\* on post-10 and 9.4+ when datadir/PG_VERSION is absent, exit 3 on 9.2/9.3,
\* and exit 1 on 9.0/9.1; every other (version, code) fails with
\* UnsupportedVersion.
StatusNew(v) == v.kind = "Post10" \/ (v.kind = "Pre10" /\ v.a = 9 /\ v.b >= 4)
StatusMid(v) == v.kind = "Pre10" /\ v.a = 9 /\ v.b \in {2, 3}
StatusOld(v) == v.kind = "Pre10" /\ v.a = 9 /\ v.b \in {0, 1}

StatusMeansStopped(v, code, exists) ==
    \/ StatusNew(v) /\ code = 3
    \/ StatusNew(v) /\ code = 4 /\ ~exists
    \/ StatusMid(v) /\ code = 3
    \/ StatusOld(v) /\ code = 1

RunningFollowsTable ==
    \A p \in P :
        pc[p] = "done" =>
            LET v == subject.version
                code == task[p].val
                answer == result[p].val
            IN  /\ answer \in {"true", "false", "UnsupportedVersion"}
                /\ answer = "true" <=> code = 0
                /\ answer = "false" <=> StatusMeansStopped(v, code, subject.exists)

RunningFollowsTableWitness ==
    \E p \in P :
        /\ pc[p] = "done"
        /\ StatusNew(subject.version) /\ subject.version.kind = "Pre10"
        /\ task[p].val = 4 /\ subject.exists
        /\ result[p].val = "UnsupportedVersion"

\* C20 (as claimed): select on a chain answers None exactly when no
\* sub-strategy has a runtime matching the constraint; otherwise the answer
\* matches the constraint, and it is the highest-version matching runtime of
\* the first sub-strategy of the chain that has a matching runtime.
Matching(strategy, constraint) ==
    {Strategy_all(strategy)[i] : i \in {j \in DOMAIN Strategy_all(strategy) :
        Constraint_matches(constraint, Strategy_all(strategy)[j])}}

HighestOf(runtime, runtimes) ==
    /\ runtime \in runtimes
    /\ \A m \in runtimes : Version_le(m.version, runtime.version)

FirstWith(strategies, constraint) ==
    CHOOSE i \in DOMAIN strategies :
        /\ Matching(strategies[i], constraint) # {}
        /\ \A j \in 1..(i - 1) : Matching(strategies[j], constraint) = {}

SelectAnswer(p, strategies) ==
    LET answer == result[p].val
        constraint == hist[p].constraint
    IN  IF Matching(hist[p].strategy, constraint) = {}
        THEN answer = NoRuntime
        ELSE /\ answer # NoRuntime
             /\ Constraint_matches(constraint, answer)
             /\ HighestOf(answer, Matching(strategies[FirstWith(strategies, constraint)],
                                           constraint))

SelectHighestOfFirstSubStrategy ==
    \A p \in P : pc[p] = "done" => SelectAnswer(p, hist[p].strategy.chain)

\* C20 (amended): the sub-strategies asked in order are the single and the
\* delegated strategies of the chain, those of a chain within the chain taken
\* in its place; the answer is the highest-version matching runtime of the
\* first of them that has a matching runtime, None exactly when none has one.
RECURSIVE Leaves(_)
Leaves(strategy) ==
    IF strategy.tag # "Chain" THEN <<strategy>>
    ELSE IF strategy.chain = <<>> THEN <<>>
    ELSE Leaves(Head(strategy.chain)) \o Leaves(Strategy_Chain(Tail(strategy.chain)))

SelectHighestOfFirstLeaf ==
    \A p \in P : pc[p] = "done" => SelectAnswer(p, Leaves(hist[p].strategy))

SelectHighestOfFirstLeafWitness ==
    \E p \in P :
        /\ pc[p] = "done"
        /\ hist[p].constraint = Constraint_Version(Post10m(14))
        /\ Len(hist[p].strategy.chain) = 1
        /\ hist[p].strategy.chain[1].tag = "Chain"
        /\ result[p].val = Runtime(1, Post10(14, 2))
        /\ Runtime(3, Post10(14, 5)) \in Matching(hist[p].strategy.chain[1], hist[p].constraint)

\* C21: what runtimes() yields for a Chain or a Delegated strategy holds no
\* version twice, and it is the runtimes of the strategy in chain order with
\* exactly the first runtime of each version kept.
FirstOfVersion(all) ==
    {i \in DOMAIN all : \A j \in 1..(i - 1) : all[j].version # all[i].version}

FirstOccurrencesInOrder(out, all) ==
    /\ \A i, j \in DOMAIN out : i # j => out[i].version # out[j].version
    /\ Len(out) = Cardinality(FirstOfVersion(all))
    /\ \A k \in DOMAIN out :
        \E i \in FirstOfVersion(all) :
            /\ out[k] = all[i]
            /\ Cardinality({j \in FirstOfVersion(all) : j < i}) = k - 1

RuntimesDeduplicated ==
    \A p \in P :
        (pc[p] = "done" /\ hist[p].strategy.tag \in {"Chain", "Delegated"}) =>
            FirstOccurrencesInOrder(result[p].val, Strategy_all(hist[p].strategy))

RuntimesDeduplicatedWitness ==
    \E p \in P :
        /\ pc[p] = "done"
        /\ hist[p].strategy.tag = "Chain"
        /\ Len(Strategy_all(hist[p].strategy)) = 6
        /\ result[p].val = <<Runtime(6, Post10(14, 5)), Runtime(7, Pre10(9, 6, 1)),
                             Runtime(4, Post10(14, 2))>>

\* C22: for every runtime, a | b matches when a or b does, a & b when both
\* do, !a when a does not; any(list) matches when some element does and
\* all(list) when every element does; Anything & c and c & Anything are c,
\* Nothing | c and c | Nothing are c, any([]) is Nothing and all([]) is
\* Anything.
OperatorMeaning(op, args, value, r) ==
    LET M(c) == Constraint_matches(c, r)
    IN  CASE op = "not" -> M(value) <=> ~M(args[1])
          [] op = "bitor" -> M(value) <=> (M(args[1]) \/ M(args[2]))
          [] op = "bitand" -> M(value) <=> (M(args[1]) /\ M(args[2]))
          [] op = "any" -> M(value) <=> \E i \in DOMAIN args : M(args[i])
          [] op = "all" -> M(value) <=> \A i \in DOMAIN args : M(args[i])
          [] OTHER -> TRUE

OperatorIdentities(op, args, value) ==
    /\ (op = "bitand" /\ args[1].tag = "Anything") => value = args[2]
    /\ (op = "bitand" /\ args[2].tag = "Anything") => value = args[1]
    /\ (op = "bitor" /\ args[1].tag = "Nothing") => value = args[2]
    /\ (op = "bitor" /\ args[2].tag = "Nothing") => value = args[1]
    /\ (op = "any" /\ args = <<>>) => value.tag = "Nothing"
    /\ (op = "all" /\ args = <<>>) => value.tag = "Anything"

OperatorsPreserveMatches ==
    \A p \in P :
        /\ \A r \in ConstraintRuntimes :
            OperatorMeaning(hist[p].op, hist[p].args, task[p].val, r)
        /\ OperatorIdentities(hist[p].op, hist[p].args, task[p].val)

OperatorsPreserveMatchesWitness ==
    \E p \in P :
        /\ hist[p].op = "bitand"
        /\ hist[p].args[1].tag = "Not"
        /\ hist[p].args[2].tag = "Nothing"
        /\ task[p].val.tag = "Nothing"

\* C23 (as claimed): a parsed version never crosses the version-10
\* boundary; a text a.b.c parses to Pre10(a, b, c) only when a < 10 and is
\* BadlyFormed when a >= 10; a text a.b parses to Post10(a, b) only when
\* a >= 10 and is BadlyFormed when a < 10; a component that does not fit in a
\* u32 makes the text BadlyFormed; and a text of either form that parses is
\* displayed as the same text.
DotsOf(s) == {i \in DOMAIN s : s[i] = "."}

\* s is n groups of digits with dots between them, and nothing else
Shape(s, n) ==
    /\ Cardinality(DotsOf(s)) = n - 1
    /\ \A i \in DOMAIN s : IsDigit(s[i]) \/ s[i] = "."
    /\ \A i \in DOMAIN s : s[i] = "." => i > 1 /\ i < Len(s) /\ s[i + 1] # "."

\* the k-th group of digits of s
Group(s, k) ==
    LET before == {i \in DOMAIN s : Cardinality({d \in DotsOf(s) : d < i}) = k - 1
                                    /\ s[i] # "."}
    IN  [j \in 1..Cardinality(before) |->
            s[CHOOSE i \in before : Cardinality({h \in before : h < i}) = j - 1]]

RECURSIVE NumberOf(_)
NumberOf(digits) ==
    IF digits = <<>> THEN 0
    ELSE NumberOf(SubSeq(digits, 1, Len(digits) - 1)) * 10 + DigitValue(digits[Len(digits)])

Fits(s, n) == \A k \in 1..n : NumberOf(Group(s, k)) <= MaxComponent

ParsedShape(s, r) ==
    /\ r.version.kind = "Pre10" => r.version.a < 10
    /\ r.version.kind = "Post10" => r.version.a >= 10
    /\ Shape(s, 3) =>
        IF Fits(s, 3) /\ NumberOf(Group(s, 1)) < 10
        THEN r = ParseOk(Pre10(NumberOf(Group(s, 1)), NumberOf(Group(s, 2)),
                               NumberOf(Group(s, 3))))
        ELSE r = ParseErr("BadlyFormed")
    /\ Shape(s, 2) =>
        IF Fits(s, 2) /\ NumberOf(Group(s, 1)) >= 10
        THEN r = ParseOk(Post10(NumberOf(Group(s, 1)), NumberOf(Group(s, 2))))
        ELSE r = ParseErr("BadlyFormed")

VersionParseRoundTrip ==
    \A p \in P :
        /\ pc[p] # "start" => ParsedShape(subject.text, result[p].val)
        /\ (pc[p] = "displayed" /\ (Shape(subject.text, 2) \/ Shape(subject.text, 3))) =>
                task[p].val = subject.text

\* C23 (amended): as claimed for the shapes; the text displayed is the text
\* parsed exactly when the text is two or three groups of digits none of
\* which has a leading zero, and in every case the text displayed parses to
\* the same version again.
NoLeadingZero(digits) == Len(digits) = 1 \/ digits[1] # "0"

Canonical(s) ==
    \/ Shape(s, 2) /\ \A k \in 1..2 : NoLeadingZero(Group(s, k))
    \/ Shape(s, 3) /\ \A k \in 1..3 : NoLeadingZero(Group(s, k))

VersionParseCanonicalRoundTrip ==
    \A p \in P :
        /\ pc[p] # "start" => ParsedShape(subject.text, result[p].val)
        /\ pc[p] = "displayed" =>
            /\ task[p].val = subject.text <=> Canonical(subject.text)
            /\ Canonical(task[p].val)
            /\ Version_from_str(task[p].val) = result[p].val

VersionParseCanonicalRoundTripWitness ==
    \E p \in P :
        /\ pc[p] = "displayed"
        /\ subject.text = <<"0", "9", ".", "1", ".", "0">>
        /\ result[p].val = ParseOk(Pre10(9, 1, 0))
        /\ task[p].val = <<"9", ".", "1", ".", "0">>

\* C24: createdb(name) returns Modified and the database is added when it
\* was not there, Unmodified with the databases unchanged when it was;
\* dropdb(name) returns Modified and the database is removed when it was
\* there, Unmodified when it was not; a statement that fails for any other
\* reason, or a connection that fails, makes the call return the error.
OtherError(call) ==
    \/ call.fault = "connect"
    \/ call.sqlstate \notin {"none", "DUPLICATE_DATABASE", "UNDEFINED_DATABASE"}

DatabaseCallOutcome(call, res, dbs) ==
    IF OtherError(call) THEN res = "Err" /\ dbs = call.before
    ELSE CASE call.op = "createdb" ->
                IF call.name \in call.before
                THEN res = "Unmodified" /\ dbs = call.before
                ELSE res = "Modified" /\ dbs = call.before \cup {call.name}
           [] call.op = "dropdb" ->
                IF call.name \in call.before
                THEN res = "Modified" /\ dbs = call.before \ {call.name}
                ELSE res = "Unmodified" /\ dbs = call.before
           [] OTHER -> TRUE

CreateDropIdempotent ==
    \A p \in P : DatabaseCallOutcome(hist[p], result[p].val, subject.databases)

CreateDropIdempotentWitness ==
    \E p \in P :
        /\ hist[p].op = "createdb" /\ hist[p].fault = "none"
        /\ hist[p].name \in hist[p].before
        /\ hist[p].name # DATABASE_POSTGRES
        /\ result[p].val = "Unmodified"

\* C25: recovery.signal is there when the server is first started, it is
\* removed only after that start and only when the server is no longer
\* running, and it is gone when the server is started the second time; when
\* restore returns success the restore directory has mode 0o700, holds no
\* recovery.signal, and the restored cluster is stopped.
RestoreSignalStep ==
    \A p \in P :
        /\ (hist[p].starts = 0 /\ hist'[p].starts = 1) => subject.signal
        /\ (hist[p].starts = 1 /\ hist'[p].starts = 2) => ~subject.signal
        /\ (subject.signal /\ ~subject'.signal) =>
                hist[p].starts = 1 /\ ~subject.running /\ ~subject.recovery
        /\ subject.recovery => subject.signal

RestoreSucceeded(p) == pc[p] = "done" /\ result[p].val = "Ok"

RestoreDone ==
    \A p \in P :
        RestoreSucceeded(p) =>
            /\ subject.perms = "0700"
            /\ ~subject.signal
            /\ ~subject.running
            /\ hist[p].starts = 2

RestoreRecoverySignal == []RestoreDone /\ [][RestoreSignalStep]_vars

RestoreRecoverySignalWitness ==
    \E p \in P : RestoreSucceeded(p) /\ subject.datadir /\ ~subject.running

\* C26: under fair scheduling every process that runs startup eventually
\* returns from it when no start (and no other call on the cluster) fails;
\* none stays for ever in the loop of taking the shared lock, finding the
\* cluster not running and releasing.
StartupReturned(p) == pc[p] \in {"held", "stopping", "done"}

NoShutdown == \A p \in StartupProcs : pc[p] # "stopping"

DestroyStep ==
    \A p \in P :
        /\ (subject.datadir /\ ~subject'.datadir) =>
                result'[p].kind = "destroy" /\ ~subject'.running
        /\ (result'[p].kind = "destroy" /\ result'[p].val \notin {"Modified", "Unmodified"}) =>
                subject' = subject

DestroyStopsFirst == [](subject.running => subject.datadir) /\ [][DestroyStep]_vars

\* C28: a lifecycle call made in the state it leads to returns Unmodified (or
\* the error of finding a runtime or of reading the status) and changes
\* nothing: create on a cluster that exists, start on a running cluster,
\* stop on a cluster that is not running, destroy on an absent cluster,
\* absent meaning that datadir/PG_VERSION does not exist.
AlreadyThere(op, absent) ==
    CASE op = "create" -> Cluster_exists(subject)
      [] op = "start" -> Cluster_exists(subject) /\ subject.running
      [] op = "stop" -> ~subject.running
      [] op = "destroy" -> absent /\ ~subject.running
      [] OTHER -> FALSE

\* the status of the cluster can be read with the caller's strategy
StatusKnown(p) == Cluster_running(subject, hist[p].strategy) \in {"true", "false"}

Untouched(p, absent) ==
    AlreadyThere(result'[p].kind, absent) =>
        /\ subject' = subject
        /\ result'[p].val # "Modified"
        /\ (StatusKnown(p) \/ result'[p].kind = "create") => result'[p].val = "Unmodified"

CreatedByRename ==
    \A e \in subject'.entries \ subject.entries :
        \E p \in P :
            /\ pc[p] = "rename" /\ state[p] = "success"
            /\ e = [n |-> task[p].val, owner |-> p]

NoneWithoutSuccess ==
    \A p \in P : state[p] # "success" => \A e \in subject.entries : e.owner # p

BackupOnlyAfterSuccess ==
    []NoneWithoutSuccess /\ [][CreatedByRename /\ BackupDirectoriesKept]_vars

\* one backup has made its data.N while the pg_basebackup of another failed
BackupOnlyAfterSuccessWitness ==
    \E p, q \in P :
        /\ state[q] = "failure" /\ pc[q] = "done"
        /\ Completed(p) /\ [n |-> result[p].val.n, owner |-> p] \in subject.entries

\* C30: a backup that needs a restart of the cluster and holds the shared
\* lock fails with the request to restart the cluster manually, having
\* stopped and started nothing and made no base backup; a stop or a start of
\* the cluster is made only under the exclusive lock.
CallsOf(p) == {hist[p].calls[i] : i \in 1..Len(hist[p].calls)}

RestartNeededShared(p) ==
    /\ task[p].kind = "needs_restart"
    /\ state[p] = "Unmodified" /\ subject.inuse

RestartOnlyExclusive ==
    \A p \in P :
        /\ (RestartNeededShared(p) /\ pc[p] \notin {"restart"}) =>
                /\ pc[p] = "done"
                /\ result[p] = [kind |-> "Failure", val |-> "Please restart the cluster manually"]
        /\ RestartNeededShared(p) => hist[p].calls = <<>>
        /\ \A c \in CallsOf(p) : c.op \in {"stop", "start"} => c.lock = "exclusive"

RestartOnlyExclusiveWitness ==
    \E p \in P :
        /\ RestartNeededShared(p) /\ pc[p] = "done"
        /\ subject.running /\ subject.archive_mode = "on"

\* C31: do_configure_archiving decides from the four settings it reads:
\* it asks for a restart exactly when wal_level was not replica or logical or
\* archive_mode was not on or always, each then being set to replica / on; a
\* non-empty archive_library is a configuration error; an archive_command
\* equal to the wanted one stays, an empty or "(disabled)" one is set to the
\* wanted one, any other is a configuration error.
Configured(p) == pc[p] = "configure" /\ pc'[p] = "restart"

ConfigureFailed(p) == pc[p] = "configure" /\ pc'[p] = "done"

ConfigureDecides ==
    \A p \in P :
        /\ Configured(p) =>
            /\ subject.archive_library = ""
            /\ subject.archive_command \in {"", "(disabled)", archive_command}
            /\ task'[p].kind = "needs_restart" <=>
                    (subject.wal_level \notin {"replica", "logical"}
                        \/ subject.archive_mode \notin {"on", "always"})
            /\ subject'.wal_level = IF subject.wal_level \in {"replica", "logical"}
                                    THEN subject.wal_level ELSE "replica"
            /\ subject'.archive_mode = IF subject.archive_mode \in {"on", "always"}
                                       THEN subject.archive_mode ELSE "on"
            /\ subject'.archive_command = archive_command
            /\ subject'.archive_library = ""
        /\ ConfigureFailed(p) =>
            /\ result'[p].kind = "Err"
            /\ \/ subject.archive_library # ""
               \/ subject.archive_command \notin {"", "(disabled)", archive_command}
               \/ "unsupported" \in {subject.wal_level, subject.archive_mode}
            /\ subject'.archive_command = subject.archive_command
            /\ subject'.archive_library = subject.archive_library

ConfigureArchivingDecides == [][ConfigureDecides]_vars

\* archiving was configured with a restart asked for because of archive_mode
\* alone, the archive_command having been "(disabled)"
ConfigureArchivingDecidesWitness ==
    \E p \in P :
        /\ pc[p] = "restart" /\ task[p].kind = "needs_restart"
        /\ subject.wal_level = "logical" /\ subject.archive_mode = "on"
        /\ subject.archive_command = archive_command
        /\ hist[p].calls = <<>>

\* C32: the number of a new base backup is one more than the largest number
\* among the data.N entries that are there (1 when there is none), whatever
\* that largest number is: no backup ends in an overflow and none wraps
\* around.
NumberIsMaxPlusOne ==
    \A e \in subject'.entries \ subject.entries :
        e.n = MaxOrDefault(Parsed(subject.entries)) + 1

NoOverflow == \A p \in P : result[p].kind # "Panic"

BackupNumberIsMaxPlusOne == []NoOverflow /\ [][NumberIsMaxPlusOne]_vars

\* C33: of the runs of wal:archive made at once for one target at most one
\* writes the target, a target that is there is never written over or
\* truncated, and once every run has ended a run that exited with success
\* has its source's bytes in the target.
OneWriter == \A p, q \in P : (hist[p].wrote /\ hist[q].wrote) => p = q

TargetKept == \A p \in P : hist[p].wrote => hist[p].over = Missing

AllEnded == \A p \in P : pc[p] = "done"

SuccessMeansArchived ==
    AllEnded => \A p \in P : result[p].val = "SUCCESS" => subject.target = File(task[p].val)

WalArchiveCreatesNew == OneWriter /\ TargetKept /\ SuccessMeansArchived

\* C34: restore into a restore directory that is not empty fails with
\* nothing copied and no server started, the directory and its mode being
\* as they were; restore without a base backup in the backup directory fails
\* with the restore directory not created.
RestoreBegins(p) == pc[p] = "start" /\ pc'[p] # "start"

RestoreRefusal ==
    \A p \in P :
        RestoreBegins(p) =>
            /\ ~hist[p].found =>
                    /\ result'[p].val = "No base backup found"
                    /\ pc'[p] = "failed" /\ subject' = subject
            /\ (hist[p].found /\ subject.dir = "not empty") =>
                    /\ result'[p].val \in {"Restore directory is not empty", "IoError"}
                    /\ pc'[p] = "failed" /\ subject' = subject

RestoreRefused ==
    \A p \in P :
        result[p].val \in {"Restore directory is not empty", "No base backup found"} =>
            /\ pc[p] = "failed" /\ hist[p].starts = 0
            /\ ~subject.datadir /\ ~subject.running /\ ~subject.signal

RestoreRefusesEarly == []RestoreRefused /\ [][RestoreRefusal]_vars

\* restore has refused a directory that is not empty and whose mode is 0755
RestoreRefusesEarlyWitness ==
    \E p \in P :
        /\ result[p].val = "Restore directory is not empty"
        /\ subject.dir = "not empty" /\ subject.perms = "0755"

\* C35: restore starts and stops the restored cluster only while it holds
\* the exclusive lock on the cluster's lock file.
RestoreRunsServer(p) ==
    /\ pc[p] \in {"recover", "start again", "stop"}
    /\ pc'[p] # pc[p]

RestoreLockedStep == \A p \in P : RestoreRunsServer(p) => flock[p] = "exclusive"

RestoreUnderExclusiveLock == [][RestoreLockedStep]_vars

Step(p) ==
    \/ StartupTryExclusive(p)
    \/ StartupTryShared(p)
    \/ StartupRunning(p)
    \/ StartupUnlockRetry(p)
    \/ StartupExclusive(p)
    \/ StartupStarted(p)
    \/ Action(p)
    \/ ShutdownTry(p)
    \/ ShutdownInUse(p)
    \/ ShutdownStopped(p)

Chosen(p) == pc[p] = "done" /\ result[p].val # NoRuntime

Found(p) == {Strategy_all(hist[p].strategy)[i] : i \in DOMAIN Strategy_all(hist[p].strategy)}

ConfigureErrorChangesNothing ==
    \A p \in P :
        ConfigureFailed(p) =>
            /\ subject'.wal_level = subject.wal_level
            /\ subject'.archive_mode = subject.archive_mode
            /\ subject'.archive_command = subject.archive_command

NoSettingOnError == [][ConfigureErrorChangesNothing]_vars

\* C39 (amended): a configuration error leaves archive_command as it was, and
\* the error that wal_level is not supported leaves every setting as it was;
\* with any other configuration error a wal_level that was neither replica
\* nor logical has been set to replica, and an archive_mode that the server
\* knows and that was neither on nor always has been set to on.
ConfigureErrorKeepsSettingsMade ==
    \A p \in P :
        ConfigureFailed(p) =>
            /\ subject'.archive_command = subject.archive_command
            /\ subject'.archive_library = subject.archive_library
            /\ IF result'[p].val = "WAL is not supported"
               THEN /\ subject'.wal_level = subject.wal_level
                    /\ subject'.archive_mode = subject.archive_mode
               ELSE /\ subject'.wal_level =
                            IF subject.wal_level \in {"replica", "logical"}
                            THEN subject.wal_level ELSE "replica"
                    /\ subject'.archive_mode =
                            IF subject.archive_mode \in {"on", "always", "unsupported"}
                            THEN subject.archive_mode ELSE "on"

SettingsMadeBeforeErrorStay == [][ConfigureErrorKeepsSettingsMade]_vars

\* archiving could not be configured because archive_library is set, after
\* wal_level and archive_mode had been set
SettingsMadeBeforeErrorStayWitness ==
    \E p \in P :
        /\ pc[p] = "done" /\ result[p].val = "archive_library is already set"
        /\ logged[p] = {"Setting wal_level", "Setting archive_mode"}
        /\ subject.wal_level = "replica" /\ subject.archive_mode = "on"

\* C40: backup leaves the run state of the cluster as it found it, on every
\* path: a cluster that backup started under the exclusive lock is stopped
\* when backup returns, and a cluster that was running when backup began is
\* running when backup returns.
BackupEnded(p) == pc[p] = "done" /\ state[p] # "none"

RestartStartFailed(p) ==
    /\ result[p].val = "ClusterError"
    /\ \E i \in DOMAIN hist[p].calls :
        /\ hist[p].calls[i].op = "stop"
        /\ i + 1 \in DOMAIN hist[p].calls
        /\ hist[p].calls[i + 1].op = "start"

====
